---- MODULE Spec2Model ----
(***************************************************************************)
(* Flowplane agents: the tool-calling agent loop (agent.py FlowplaneAgent), *)
(* its guardrail pipeline (agent.py Guardrails), the conversation memory    *)
(* (agent.py ConversationMemory) and the LLM record/replay client           *)
(* (testing/replay.py CassetteOpenAIClient).                                *)
(*                                                                          *)
(* Python values.  A dict is a function from its keys to its values, {} is  *)
(* <<>>, a list is a sequence.  A str that may be parsed as JSON is one of  *)
(*   [json |-> v]  the text json.dumps(v) produces (a valid JSON text),    *)
(*   [json |-> v, layout |-> l]  another JSON text of the same value,      *)
(*   [raw |-> s]   the text s, which is not a valid JSON text.              *)
(* Every Python str value is one of the two; only dict keys, tool names and *)
(* exception messages are plain strings.  None is the record None.          *)
(***************************************************************************)
EXTENDS Integers, Sequences, FiniteSets, TLC

VARIABLES
    (* ---- FlowplaneAgent instance (agent.py) ---- *)
    tool_names,     \* self.tool_names: names of the registered catalog
    max_turns,      \* self.max_turns
    guardrails,     \* self.guardrails: None or the Guardrails record
    (* ---- collaborators of the agent ---- *)
    mcp,            \* the tool boundary: tool name -> how call_tool answers
    llm,            \* the model's behaviour: its k-th response in a run
    hook_calls,     \* what the caller-supplied hooks were called with
    (* ---- the call of run / run_stream in progress ---- *)
    pc,             \* "idle", "run_loop", "run_tools", "stream_loop", ...
    messages,       \* local list `messages`
    turn,           \* loop variable of `for turn in range(self.max_turns)`
    message,        \* response.choices[0].message of the current turn
    tc_index,       \* position of the inner loop in message.tool_calls
    memory,         \* the ConversationMemory passed to run_stream, or None
    events,         \* what run_stream has yielded so far
    llm_requests,   \* the `messages` argument of every create() call so far
    mcp_calls,      \* every mcp.call_tool call so far, in order
    completed,      \* summaries of the finished calls of run / run_stream
    (* ---- CassetteOpenAIClient instance (testing/replay.py) ---- *)
    mode,           \* self.mode
    _turn,          \* self._turn: the cursor
    _turns,         \* self._turns: the recorded turns
    _id_map,        \* self._id_map._map: recorded id -> live id
    cassette,       \* the file at self.cassette_path: None or its JSON text
    replay_log,     \* outcome of every create() call since load()
    saved,          \* None, or [returned |-> what a recording client had
                    \*    returned when it called save()]
    real_client,    \* self.real_client: None or the client that is recorded
    constructed,    \* None, or the last call CassetteOpenAIClient(...): its
                    \*    arguments, its outcome, the calls made since
    (* ---- a Guardrails object used on its own ---- *)
    guard_log,      \* the before_call, reset_turn and _execute_tool calls made
    (* ---- a ConversationMemory used on its own ---- *)
    memory_log,     \* the calls made on the memory and what they returned
    (* ---- a call of mcp_to_openai_tools (agent.py) ---- *)
    mcp_tools,      \* the list passed as `mcp_tools`, as it is now
    allowed,        \* the `allowed` argument of the last call
    openai_tools,   \* None, or Returned(what the last call returned)
    (* ---- a call of run_agent_scenario (testing/harness.py) ---- *)
    stream,         \* what agent.run_stream(prompt) has yet to yield
    worker,         \* the pool's thread in _run: its pc and its local pending_call
    waiter,         \* where the calling thread is in run_agent_scenario
    tool_calls,     \* local list `tool_calls`
    answer,         \* local `answer`
    turn_count,     \* local `turn` of run_agent_scenario
    timed_out,      \* local `timed_out`
    error_msg,      \* local `error_msg`
    trace           \* None, or the ConversationTrace returned

agentVars == <<tool_names, max_turns, guardrails, mcp, llm, hook_calls, pc,
               messages, turn, message, tc_index, memory, events,
               llm_requests, mcp_calls, completed>>
replayVars == <<mode, _turn, _turns, _id_map, cassette, replay_log, saved,
                real_client>>
constructVars == <<constructed>>
guardVars == <<guard_log, memory_log>>
toolVars == <<mcp_tools, allowed, openai_tools>>
harnessVars == <<stream, worker, waiter, tool_calls, answer, turn_count,
                 timed_out, error_msg, trace>>
vars == <<agentVars, replayVars, guardVars, constructVars, toolVars,
          harnessVars>>

(***************************************************************************)
(* Bounds of the model.                                                     *)
(***************************************************************************)
MaxTurns == 2       \* largest max_turns an agent is built with
MaxHistory == 2     \* largest ConversationMemory.max_history
MaxCassette == 3    \* largest number of recorded turns of a cassette
MaxExtraCalls == 2  \* create() calls tried after a cassette is exhausted
MaxRecorded == 2    \* turns recorded before a cassette is saved and replayed
MaxListing == 2     \* most resources in a listing, and recorded for one turn
MaxOps == 4         \* calls made on a Guardrails object used on its own
MaxStageCalls == 2  \* before_call calls on guardrails with one stage enabled
MaxManifestOps == 3 \* calls made on a Guardrails object whose manifest is watched
MaxMemoryOps == 4   \* calls made on a ConversationMemory used on its own
MaxUses == 2        \* calls made on a cassette client after its construction
MaxBuilds == 2      \* calls of CassetteOpenAIClient(...)
MaxCatalog == 3     \* most tools of a catalog given to mcp_to_openai_tools

(***************************************************************************)
(* Python values                                                            *)
(***************************************************************************)
None == [none |-> TRUE]

\* The OpenAI client that a recording client forwards to
RealClient == [client |-> "OpenAI"]

\* The str s, s not being a JSON text.
Str(s) == [raw |-> s]

\* Python truthiness of an Optional[str], and of a list (a list of the
\* model is always a sequence, never None)
StrTruthy(s) == s # None /\ s # Str("")
ListTruthy(l) == l # <<>>

\* An operation either returns a value or raises.
Returned(v) == [ok |-> TRUE, value |-> v]
Raised(e, m) == [ok |-> FALSE, exc |-> e, msg |-> m]

json_dumps(v) == [json |-> v]

\* A JSON text for v that is laid out otherwise than json.dumps(v), as a
\* model writes the arguments of a tool call.
JsonText(v) == [json |-> v, layout |-> "compact"]

json_loads(s) ==
    IF "json" \in DOMAIN s THEN Returned(s.json)
    ELSE Raised("JSONDecodeError", "Expecting value")

\* d | {k: v}: the dict d with key k set to v
DictSet(d, k, v) ==
    [x \in DOMAIN d \cup {k} |-> IF x = k THEN v ELSE d[x]]

\* d.get(k, default)
DictGet(d, k, default) == IF k \in DOMAIN d THEN d[k] ELSE default

Last(s) == s[Len(s)]

\* F applied to the value v: names a value that is used more than once.
With(v, F(_)) == F(v)

\* A dict that a function was passed as `args` and may copy or write to:
\*   cur     the value of the dict that `args` names now,
\*   same    `args` still names the object that was passed in,
\*   passed  the value of the object that was passed in.
Passed(args) == [cur |-> args, same |-> TRUE, passed |-> args]

\* Variant of dict_copy: `args` goes on naming the same object.
dict_alias(a) == a

\* args = dict(args)
dict_copy(a) == [a EXCEPT !.same = FALSE]

\* args[k] = v
setitem(a, k, v) ==
    [cur |-> DictSet(a.cur, k, v),
     same |-> a.same,
     passed |-> IF a.same THEN DictSet(a.passed, k, v) ELSE a.passed]

(***************************************************************************)
(* Tool names.  TLC cannot take a string apart, so startswith and           *)
(* removeprefix are tabulated over the tool names the model uses.           *)
(***************************************************************************)
CreateTools ==
    {"cp_create_cluster", "cp_create_route_config", "cp_create_listener",
     "cp_create_virtual_host", "cp_create_route", "cp_create_filter",
     "cp_create_dataplane", "cp_create_widget", "cp_create_filters"}

\* tool_name.startswith("cp_create_")
startswith_cp_create(tool_name) == tool_name \in CreateTools

\* tool_name.removeprefix("cp_create_"), for a cp_create_* name
removeprefix_cp_create(tool_name) ==
    CASE tool_name = "cp_create_cluster" -> "cluster"
      [] tool_name = "cp_create_route_config" -> "route_config"
      [] tool_name = "cp_create_listener" -> "listener"
      [] tool_name = "cp_create_virtual_host" -> "virtual_host"
      [] tool_name = "cp_create_route" -> "route"
      [] tool_name = "cp_create_filter" -> "filter"
      [] tool_name = "cp_create_dataplane" -> "dataplane"
      [] tool_name = "cp_create_widget" -> "widget"
      [] tool_name = "cp_create_filters" -> "filters"

\* resource_type.endswith("s"), for the resource types above
endswith_s(resource_type) == resource_type = "filters"

ManifestKeys ==
    {"clusters", "route_configs", "listeners", "virtual_hosts", "routes",
     "filters", "dataplanes"}

(***************************************************************************)
(* The tool boundary, FlowplaneMCPClient.call_tool.  The server is an       *)
(* external collaborator: mcp[name] says whether a call of that tool raises *)
(* and, if not, which dict it returns.  A name the server does not know     *)
(* is an MCP error.                                                         *)
(***************************************************************************)
call_tool(m, name, arguments) ==
    IF name \notin DOMAIN m THEN Raised("RuntimeError", "MCP error: unknown tool")
    ELSE IF m[name].raises THEN Raised("RuntimeError", "MCP error: " \o name)
    ELSE Returned(m[name].result)

\* One entry of the log of boundary calls.
McpCall(name, arguments, site) ==
    [name |-> name, arguments |-> arguments, site |-> site]

(***************************************************************************)
(* Caller-supplied hooks.  A pre-hook returns the next arguments, returns   *)
(* None to reject, or raises; a post-hook returns or raises.                *)
(***************************************************************************)
PreHook(hook, tool_name, args) ==
    CASE hook = "inject_team" -> Returned(DictSet(args, "team", Str("injected")))
      [] hook = "reject_delete" ->
            IF tool_name = "cp_delete_cluster" THEN Returned(None)
            ELSE Returned(args)
      [] hook = "reject_all" -> Returned(None)
      [] hook = "capture" -> Returned(args)

PostHook(hook, tool_name, args, result) ==
    CASE hook = "capture" -> Returned(None)
      [] hook = "hook_a" -> Returned(None)
      [] hook = "hook_b" -> Returned(None)
      [] hook = "exploding_hook" -> Raised("RuntimeError", "boom")

HookCall(stage, hook, tool_name, args) ==
    [stage |-> stage, hook |-> hook, tool_name |-> tool_name, args |-> args]

(***************************************************************************)
(* Guardrails (agent.py)                                                    *)
(***************************************************************************)
\* Guardrails.__init__
NewGuardrails ==
    [_pre_hooks |-> <<>>,
     _post_hooks |-> <<>>,
     _preflight_done |-> FALSE,
     _auto_preflight |-> FALSE,
     _dataplane_injection |-> FALSE,
     _name_dedup |-> FALSE,
     _port_validation |-> FALSE,
     _port_range |-> <<10000, 10020>>,
     manifest |-> [k \in ManifestKeys |-> <<>>]]

enable_auto_preflight(g) == [g EXCEPT !._auto_preflight = TRUE]

enable_dataplane_injection(g) == [g EXCEPT !._dataplane_injection = TRUE]

enable_name_dedup(g) == [g EXCEPT !._name_dedup = TRUE]

enable_port_validation(g, low, high) ==
    [g EXCEPT !._port_validation = TRUE, !._port_range = <<low, high>>]

add_pre_hook(g, hook) == [g EXCEPT !._pre_hooks = Append(@, hook)]

add_post_hook(g, hook) == [g EXCEPT !._post_hooks = Append(@, hook)]

\* Variant of reset_turn: the preflight flag is left as it is.
reset_turn_keep(g) == g

reset_turn(g) == [g EXCEPT !._preflight_done = FALSE]

\* Variant of RunPreHooks: a hook that returns None is passed over.
RECURSIVE RunPreHooks_skip_reject(_, _, _, _)
RunPreHooks_skip_reject(hooks, i, tool_name, args) ==
    IF i > Len(hooks) THEN [out |-> Returned(args), hooks |-> <<>>]
    ELSE With(PreHook(hooks[i], tool_name, args), LAMBDA result :
         With(RunPreHooks_skip_reject(hooks, i + 1, tool_name,
                    IF result.value = None THEN args ELSE result.value),
              LAMBDA rest :
             [out |-> rest.out,
              hooks |-> <<HookCall("pre", hooks[i], tool_name, args)>> \o rest.hooks]))

\* The loop `for hook in self._pre_hooks` of before_call, from hook i on:
\* [out |-> the arguments returned or the exception raised,
\*  hooks |-> the hooks that ran, with what they received].
RECURSIVE RunPreHooks(_, _, _, _)
RunPreHooks(hooks, i, tool_name, args) ==
    IF i > Len(hooks) THEN [out |-> Returned(args), hooks |-> <<>>]
    ELSE With(PreHook(hooks[i], tool_name, args), LAMBDA result :
         With(<<HookCall("pre", hooks[i], tool_name, args)>>, LAMBDA this :
         IF ~result.ok THEN [out |-> result, hooks |-> this]
         ELSE IF result.value = None THEN
             [out |-> Raised("GuardrailReject",
                             "Pre-hook rejected call to " \o tool_name),
              hooks |-> this]
         ELSE With(RunPreHooks(hooks, i + 1, tool_name, result.value), LAMBDA rest :
             [out |-> rest.out, hooks |-> this \o rest.hooks])))

\* x.get(k1) or x.get(k2), for str values
GetOr(d, k1, k2) ==
    IF k1 \in DOMAIN d /\ StrTruthy(d[k1]) THEN d[k1] ELSE DictGet(d, k2, None)

\* resp.get(list_key) or resp.get("items") or []
ItemsOf(resp, list_key) ==
    IF list_key \in DOMAIN resp /\ ListTruthy(resp[list_key]) THEN resp[list_key]
    ELSE IF "items" \in DOMAIN resp /\ ListTruthy(resp["items"]) THEN resp["items"]
    ELSE <<>>

\* isinstance(v, str), for a value that is a str or a dict
IsStr(v) == DOMAIN v \in {{"raw"}, {"json"}, {"json", "layout"}}

\* Variant of _resolve_dataplane_id: a failed lookup yields a made-up id.
_resolve_dataplane_id_fallback(g, m) ==
    [dp_id |-> Str("default-dp"),
     g |-> g,
     calls |-> <<McpCall("cp_list_dataplanes", <<>>, "_resolve_dataplane_id")>>]

\* Guardrails._resolve_dataplane_id: [dp_id, g, calls]
_resolve_dataplane_id(g, m) ==
    LET c1 == McpCall("cp_list_dataplanes", <<>>, "_resolve_dataplane_id")
        c2 == McpCall("cp_create_dataplane", [name |-> Str("default-dp")],
                      "_resolve_dataplane_id")
    IN  With(call_tool(m, "cp_list_dataplanes", <<>>), LAMBDA dps :
        IF ~dps.ok THEN [dp_id |-> None, g |-> g, calls |-> <<c1>>]
        ELSE With(ItemsOf(dps.value, "dataplanes"), LAMBDA items :
        IF items # <<>> THEN
            [dp_id |-> GetOr(items[1], "id", "Id"), g |-> g, calls |-> <<c1>>]
        ELSE With(call_tool(m, "cp_create_dataplane", [name |-> Str("default-dp")]),
                  LAMBDA created :
        IF ~created.ok THEN [dp_id |-> None, g |-> g, calls |-> <<c1, c2>>]
        ELSE With(GetOr(created.value, "id", "Id"), LAMBDA dp_id :
            [dp_id |-> dp_id,
             g |-> [g EXCEPT !.manifest["dataplanes"] =
                       Append(@, [name |-> Str("default-dp"), id |-> dp_id])],
             calls |-> <<c1, c2>>]))))

\* Guardrails._CREATE_TO_LIST
_CREATE_TO_LIST ==
    [cp_create_cluster |-> <<"cp_list_clusters", "clusters">>,
     cp_create_route_config |-> <<"cp_list_route_configs", "route_configs">>,
     cp_create_listener |-> <<"cp_list_listeners", "listeners">>,
     cp_create_virtual_host |-> <<"cp_list_virtual_hosts", "virtual_hosts">>,
     cp_create_route |-> <<"cp_list_routes", "routes">>,
     cp_create_filter |-> <<"cp_list_filters", "filters">>,
     cp_create_dataplane |-> <<"cp_list_dataplanes", "dataplanes">>]

\* f"{proposed}-{i}"
Candidate(proposed, i) == Str(proposed.raw \o "-" \o ToString(i))

\* Variant of Rename: when no candidate is free the name is left at the
\* last candidate tried.
Rename_last_candidate(a, proposed, existing_names) ==
    With({i \in 2..99 : Candidate(proposed, i) \notin existing_names}, LAMBDA free :
    IF free = {} THEN setitem(dict_copy(a), "name", Candidate(proposed, 99))
    ELSE With(Candidate(proposed, CHOOSE i \in free : \A j \in free : i <= j),
              LAMBDA candidate :
        setitem(setitem(dict_copy(a), "name", candidate), "_dedup_warning",
                Str("Name '" \o proposed.raw \o "' already exists. "
                    \o "Renamed to '" \o candidate.raw \o "'."))))

\* Guardrails._dedup_name, lines 243-254: the copy `args = dict(args)` and
\* the search `for i in range(2, 100)` for a name that is not taken; the
\* copy is left as it is if there is none.
Rename(a, proposed, existing_names) ==
    With({i \in 2..99 : Candidate(proposed, i) \notin existing_names}, LAMBDA free :
    IF free = {} THEN dict_copy(a)
    ELSE With(Candidate(proposed, CHOOSE i \in free : \A j \in free : i <= j),
              LAMBDA candidate :
        setitem(setitem(dict_copy(a), "name", candidate), "_dedup_warning",
                Str("Name '" \o proposed.raw \o "' already exists. "
                    \o "Renamed to '" \o candidate.raw \o "'."))))

\* Guardrails._dedup_name: [a |-> the dict returned (a.cur) and what became
\* of the dict passed in, calls]
_dedup_name(g, m, tool_name, args) ==
    IF tool_name \notin DOMAIN _CREATE_TO_LIST
    THEN [a |-> Passed(args), calls |-> <<>>]
    ELSE
    LET list_tool == _CREATE_TO_LIST[tool_name][1]
        list_key == _CREATE_TO_LIST[tool_name][2]
        c == <<McpCall(list_tool, <<>>, "_dedup_name")>>
    IN  With(call_tool(m, list_tool, <<>>), LAMBDA resp :
        IF ~resp.ok THEN [a |-> Passed(args), calls |-> c]
        ELSE With(ItemsOf(resp.value, list_key), LAMBDA items :
             With({DictGet(items[j], "name", Str("")) : j \in 1..Len(items)},
                  LAMBDA existing_names :
        IF args["name"] \notin existing_names THEN [a |-> Passed(args), calls |-> c]
        ELSE [a |-> Rename(Passed(args), args["name"], existing_names),
              calls |-> c])))

\* Variant of RangeWarning: the two ends of the range are outside it.
RangeWarning_exclusive(port, low, high) ==
    IF ~(low < port /\ port < high) THEN
        <<Str("Port " \o ToString(port)
              \o " is outside the recommended Envoy range ("
              \o ToString(low) \o "-" \o ToString(high)
              \o "). Envoy may not expose this port.")>>
    ELSE <<>>

\* The first warning of _validate_port, lines 266-270
RangeWarning(port, low, high) ==
    IF ~(low <= port /\ port <= high) THEN
        <<Str("Port " \o ToString(port)
              \o " is outside the recommended Envoy range ("
              \o ToString(low) \o "-" \o ToString(high)
              \o "). Envoy may not expose this port.")>>
    ELSE <<>>

\* The second warning of _validate_port, lines 273-288, resp being what
\* cp_query_port answered
UseWarning(port, resp) ==
    IF ~resp.ok THEN <<>>
    ELSE With(DictGet(resp.value, "listener", None), LAMBDA listener :
         With(IF listener = None THEN ""
              ELSE IF IsStr(listener) THEN listener.raw
              ELSE DictGet(listener, "name", Str("")).raw, LAMBDA listener_name :
        IF ("in_use" \in DOMAIN resp.value /\ resp.value["in_use"])
                \/ (listener # None /\ listener # <<>> /\ listener # Str(""))
        THEN <<Str("Port " \o ToString(port) \o " is already in use"
                   \o (IF listener_name # ""
                       THEN " by listener '" \o listener_name \o "'" ELSE "")
                   \o ".")>>
        ELSE <<>>))

\* Guardrails._validate_port: [a |-> the dict returned (a.cur) and what
\* became of the dict passed in, calls]
_validate_port(g, m, args) ==
    IF "port" \notin DOMAIN args THEN [a |-> Passed(args), calls |-> <<>>]
    ELSE With(RangeWarning(args["port"], g._port_range[1], g._port_range[2])
                \o UseWarning(args["port"],
                              call_tool(m, "cp_query_port", [port |-> args["port"]])),
              LAMBDA warnings :
        [a |-> IF warnings # <<>>
               THEN setitem(dict_copy(Passed(args)), "_port_warnings", warnings)
               ELSE dict_copy(Passed(args)),
         calls |-> <<McpCall("cp_query_port", [port |-> args["port"]],
                             "_validate_port")>>])

\* The built-in stages of before_call act on st = [g, args, calls, same,
\* caller]: the guardrails, the dict `args` names now, the boundary calls
\* made so far, whether `args` still names the caller's dict, and the value
\* of the caller's dict.

\* `args = f(args)` or a block that copies and writes `args`: st after `args`
\* was bound to the dict a.cur, the dict passed to f being the one `args`
\* named before.
Rebind(st, a, calls) ==
    [g |-> st.g,
     args |-> a.cur,
     calls |-> st.calls \o calls,
     same |-> st.same /\ a.same,
     caller |-> IF st.same THEN a.passed ELSE st.caller]

\* Guardrails.before_call, lines 153-159: auto-preflight for create calls.
\* Whatever dev_preflight_check answers or raises is dropped.
AutoPreflight(m, tool_name, st) ==
    IF st.g._auto_preflight /\ startswith_cp_create(tool_name)
            /\ ~st.g._preflight_done
    THEN [st EXCEPT !.g._preflight_done = TRUE,
                    !.calls = Append(@, McpCall("dev_preflight_check", st.args,
                                                "before_call"))]
    ELSE st

\* Variant of DataplaneInjection: only an absent dataplaneId is resolved, an
\* empty one is kept.
DataplaneInjection_absent_only(m, tool_name, st) ==
    IF st.g._dataplane_injection /\ tool_name = "cp_create_listener"
            /\ "dataplaneId" \notin DOMAIN st.args
    THEN With(_resolve_dataplane_id(st.g, m), LAMBDA dp :
             Rebind([st EXCEPT !.g = dp.g],
                    IF StrTruthy(dp.dp_id)
                    THEN setitem(dict_copy(Passed(st.args)), "dataplaneId", dp.dp_id)
                    ELSE dict_copy(Passed(st.args)),
                    dp.calls))
    ELSE st

\* Guardrails.before_call, lines 161-167: dataplane injection
DataplaneInjection(m, tool_name, st) ==
    IF st.g._dataplane_injection /\ tool_name = "cp_create_listener"
            /\ ("dataplaneId" \notin DOMAIN st.args
                \/ ~StrTruthy(st.args["dataplaneId"]))
    THEN With(_resolve_dataplane_id(st.g, m), LAMBDA dp :
             Rebind([st EXCEPT !.g = dp.g],
                    IF StrTruthy(dp.dp_id)
                    THEN setitem(dict_copy(Passed(st.args)), "dataplaneId", dp.dp_id)
                    ELSE dict_copy(Passed(st.args)),
                    dp.calls))
    ELSE st

\* Guardrails.before_call, lines 169-171: name dedup for create calls
NameDedup(m, tool_name, st) ==
    IF st.g._name_dedup /\ startswith_cp_create(tool_name)
            /\ "name" \in DOMAIN st.args /\ StrTruthy(st.args["name"])
    THEN With(_dedup_name(st.g, m, tool_name, st.args), LAMBDA dd :
             Rebind(st, dd.a, dd.calls))
    ELSE st

\* Guardrails.before_call, lines 173-175: port validation
PortValidation(m, tool_name, st) ==
    IF st.g._port_validation /\ tool_name = "cp_create_listener"
    THEN With(_validate_port(st.g, m, st.args), LAMBDA vp :
             Rebind(st, vp.a, vp.calls))
    ELSE st

\* Variant of before_call: the port is validated before the name is
\* deduplicated.
before_call_port_first(g, m, tool_name, args) ==
    With(NameDedup(m, tool_name,
           PortValidation(m, tool_name,
             DataplaneInjection(m, tool_name,
               AutoPreflight(m, tool_name,
                 [g |-> g, args |-> args, calls |-> <<>>,
                  same |-> TRUE, caller |-> args])))), LAMBDA st :
    With(RunPreHooks(g._pre_hooks, 1, tool_name, st.args), LAMBDA ph :
        [g |-> st.g, out |-> ph.out, calls |-> st.calls, hooks |-> ph.hooks,
         staged |-> st.args, same |-> st.same, caller |-> st.caller]))

\* Guardrails.before_call:
\* [g |-> the guardrails afterwards, out |-> the arguments returned or the
\*  exception raised, calls |-> the boundary calls made, hooks |-> hook calls,
\*  staged |-> the arguments after the built-in stages, same |-> these are
\*  still the caller's dict, caller |-> the value of the caller's dict]
before_call(g, m, tool_name, args) ==
    With(PortValidation(m, tool_name,
           NameDedup(m, tool_name,
             DataplaneInjection(m, tool_name,
               AutoPreflight(m, tool_name,
                 [g |-> g, args |-> args, calls |-> <<>>,
                  same |-> TRUE, caller |-> args])))), LAMBDA st :
    With(RunPreHooks(g._pre_hooks, 1, tool_name, st.args), LAMBDA ph :
        [g |-> st.g, out |-> ph.out, calls |-> st.calls, hooks |-> ph.hooks,
         staged |-> st.args, same |-> st.same, caller |-> st.caller]))

\* One post-hook call: what the hook received and whether it raised
PostHookCall(hook, tool_name, args, result, outcome) ==
    [stage |-> "post", hook |-> hook, tool_name |-> tool_name, args |-> args,
     result |-> result, raised |-> ~outcome.ok]

\* Variant of RunPostHooks: the exception of a hook ends the loop.
RECURSIVE RunPostHooks_stop_at_raise(_, _, _, _, _)
RunPostHooks_stop_at_raise(hooks, i, tool_name, args, result) ==
    IF i > Len(hooks) THEN <<>>
    ELSE With(PostHook(hooks[i], tool_name, args, result), LAMBDA outcome :
        <<PostHookCall(hooks[i], tool_name, args, result, outcome)>>
            \o (IF outcome.ok
                THEN RunPostHooks_stop_at_raise(hooks, i + 1, tool_name, args, result)
                ELSE <<>>))

\* The loop `for hook in self._post_hooks` of after_call, from hook i on:
\* the hooks that ran.  `except Exception: pass` drops what a hook raises
\* and the loop goes on.
RECURSIVE RunPostHooks(_, _, _, _, _)
RunPostHooks(hooks, i, tool_name, args, result) ==
    IF i > Len(hooks) THEN <<>>
    ELSE With(PostHook(hooks[i], tool_name, args, result), LAMBDA outcome :
        <<PostHookCall(hooks[i], tool_name, args, result, outcome)>>
            \o RunPostHooks(hooks, i + 1, tool_name, args, result))

\* Variant of ManifestEntry: only the spelling "id" is recognised.
ManifestEntry_lowercase_only(args, result) ==
    LET res == IF result = None THEN <<>> ELSE result
        entry == [name |-> DictGet(args, "name", Str("")), args |-> args]
    IN  IF "id" \in DOMAIN res THEN DictSet(entry, "id", res["id"]) ELSE entry

\* Guardrails.after_call, lines 194-199: the manifest entry of a created resource
ManifestEntry(args, result) ==
    LET res == IF result = None THEN <<>> ELSE result
        entry == [name |-> DictGet(args, "name", Str("")), args |-> args]
    IN  IF "id" \in DOMAIN res THEN DictSet(entry, "id", res["id"])
        ELSE IF "Id" \in DOMAIN res THEN DictSet(entry, "id", res["Id"])
        ELSE IF "ID" \in DOMAIN res THEN DictSet(entry, "id", res["ID"])
        ELSE entry

\* resource_type + "s" if not resource_type.endswith("s") else resource_type
ManifestKey(resource_type) ==
    IF ~endswith_s(resource_type) THEN resource_type \o "s" ELSE resource_type

\* Variant of after_call: a bucket holds the latest entry only.
after_call_latest_only(g, tool_name, args, result) ==
    [g |-> IF startswith_cp_create(tool_name)
                /\ ManifestKey(removeprefix_cp_create(tool_name)) \in DOMAIN g.manifest
           THEN [g EXCEPT !.manifest[ManifestKey(removeprefix_cp_create(tool_name))] =
                    <<ManifestEntry(args, result)>>]
           ELSE g,
     hooks |-> RunPostHooks(g._post_hooks, 1, tool_name, args, result)]

\* Guardrails.after_call: [g, hooks]
after_call(g, tool_name, args, result) ==
    [g |-> IF startswith_cp_create(tool_name)
                /\ ManifestKey(removeprefix_cp_create(tool_name)) \in DOMAIN g.manifest
           THEN [g EXCEPT !.manifest[ManifestKey(removeprefix_cp_create(tool_name))] =
                    Append(@, ManifestEntry(args, result))]
           ELSE g,
     hooks |-> RunPostHooks(g._post_hooks, 1, tool_name, args, result)]

(***************************************************************************)
(* ConversationMemory (agent.py).  _manifest is None, a reference to the    *)
(* manifest of the Guardrails ([ref |-> "guardrails.manifest"]) or a dict   *)
(* of its own ([value |-> the dict]).                                       *)
(***************************************************************************)
NewConversationMemory(max_history) ==
    [max_history |-> max_history, _messages |-> <<>>, _manifest |-> None]

\* Variant of PopWhileOver: turns are dropped from max_history on.
RECURSIVE PopWhileOver_keep_fewer(_, _)
PopWhileOver_keep_fewer(msgs, max_history) ==
    IF msgs # <<>> /\ Len(msgs) >= max_history
    THEN PopWhileOver_keep_fewer(Tail(msgs), max_history)
    ELSE msgs

\* while len(self._messages) > self.max_history: self._messages.pop(0)
RECURSIVE PopWhileOver(_, _)
PopWhileOver(msgs, max_history) ==
    IF Len(msgs) > max_history THEN PopWhileOver(Tail(msgs), max_history)
    ELSE msgs

\* Variant of add: the newest messages are evicted instead of the oldest.
add_evict_newest(mem, msg) ==
    [mem EXCEPT !._messages =
        SubSeq(Append(@, msg), 1,
               IF Len(@) + 1 > mem.max_history THEN mem.max_history ELSE Len(@) + 1)]

\* ConversationMemory.add
add(mem, msg) ==
    [mem EXCEPT !._messages = PopWhileOver(Append(@, msg), mem.max_history)]

\* ConversationMemory.add_many
RECURSIVE add_many(_, _)
add_many(mem, msgs) ==
    IF msgs = <<>> THEN mem ELSE add_many(add(mem, Head(msgs)), Tail(msgs))

\* ConversationMemory.reset
reset(mem) == [mem EXCEPT !._messages = <<>>]

\* Variant of link_manifest: the memory keeps a copy of the manifest.
link_manifest_copy(mem, g) == [mem EXCEPT !._manifest = [value |-> g.manifest]]

\* ConversationMemory.link_manifest, called with the manifest of g
link_manifest(mem, g) == [mem EXCEPT !._manifest = [ref |-> "guardrails.manifest"]]

\* The dict that self._manifest names
LinkedManifest(mem, g) ==
    IF "ref" \in DOMAIN mem._manifest THEN g.manifest ELSE mem._manifest.value

\* The manifest's keys in dict order.
ManifestOrder ==
    <<"clusters", "route_configs", "listeners", "virtual_hosts", "routes",
      "filters", "dataplanes">>

\* ", ".join(i.get("name", i.get("id", "?")) for i in items), from item j on
RECURSIVE JoinNames(_, _)
JoinNames(items, j) ==
    LET i == items[j]
        name == IF "name" \in DOMAIN i THEN i["name"].raw
                ELSE IF "id" \in DOMAIN i THEN i["id"].raw ELSE "?"
    IN  IF j = Len(items) THEN name ELSE name \o ", " \o JoinNames(items, j + 1)

\* The list `parts` of deployment_context, from key k of the manifest on.
RECURSIVE ContextParts(_, _)
ContextParts(manifest, k) ==
    IF k > Len(ManifestOrder) THEN <<>>
    ELSE LET kind == ManifestOrder[k]
             items == manifest[kind]
         IN  (IF items # <<>>
              THEN <<kind \o ": [" \o JoinNames(items, 1) \o "]">> ELSE <<>>)
             \o ContextParts(manifest, k + 1)

\* "; ".join(parts), from part j on
RECURSIVE JoinParts(_, _)
JoinParts(parts, j) ==
    IF j = Len(parts) THEN parts[j] ELSE parts[j] \o "; " \o JoinParts(parts, j + 1)

\* ConversationMemory.deployment_context, g being the linked Guardrails
deployment_context(mem, g) ==
    IF mem._manifest = None THEN ""
    ELSE LET parts == ContextParts(LinkedManifest(mem, g), 1)
         IN  IF parts # <<>> THEN "Deployed this session: " \o JoinParts(parts, 1)
             ELSE ""

\* Variant of to_messages: the context is a system turn of its own.
to_messages_context_turn(mem, g, system_prompt) ==
    LET ctx == deployment_context(mem, g)
    IN  <<[role |-> "system", content |-> system_prompt]>>
        \o (IF ctx # "" THEN <<[role |-> "system", content |-> Str(ctx)]>> ELSE <<>>)
        \o mem._messages

\* ConversationMemory.to_messages
to_messages(mem, g, system_prompt) ==
    LET ctx == deployment_context(mem, g)
        sys_content == IF ctx # ""
                       THEN Str(system_prompt.raw \o "\n\n## Session Context\n" \o ctx)
                       ELSE system_prompt
    IN  <<[role |-> "system", content |-> sys_content]>> \o mem._messages

(***************************************************************************)
(* FlowplaneAgent (agent.py)                                                *)
(***************************************************************************)
system_prompt == Str("You are a gateway diagnostics agent.")
user_message == Str("Show me the gateway topology")
MaxTurnsReached == Str("Max turns reached without final answer.")

\* Variant of ErrorResult: the message is returned bare, not as a JSON object.
ErrorResult_bare(msg) == Str(msg)

\* json.dumps({"error": ...})
ErrorResult(msg) == json_dumps([error |-> Str(msg)])

\* Variant of KnownTool: the catalog is not consulted.
KnownTool_unchecked(names, fn_name) == TRUE

\* `fn_name not in self.tool_names` of _execute_tool, negated
KnownTool(names, fn_name) == fn_name \in names

\* Variant of _execute_tool: after_call runs, with no result, also when the
\* boundary call raised.
_execute_tool_always_after(g, m, names, fn_name, fn_args) ==
    IF ~KnownTool(names, fn_name) THEN
        [out |-> Returned(ErrorResult("Unknown tool: " \o fn_name)),
         g |-> g, calls |-> <<>>, hooks |-> <<>>]
    ELSE
    With(IF g # None THEN before_call(g, m, fn_name, fn_args)
         ELSE [g |-> g, out |-> Returned(fn_args), calls |-> <<>>, hooks |-> <<>>],
         LAMBDA bc :
    IF ~bc.out.ok THEN
        [out |-> IF bc.out.exc = "GuardrailReject"
                 THEN Returned(ErrorResult(bc.out.msg)) ELSE bc.out,
         g |-> bc.g, calls |-> bc.calls, hooks |-> bc.hooks]
    ELSE
    With(Append(bc.calls, McpCall(fn_name, bc.out.value, "_execute_tool")),
         LAMBDA calls :
    With(call_tool(m, fn_name, bc.out.value), LAMBDA result :
    With(IF g # None
         THEN after_call(bc.g, fn_name, bc.out.value,
                         IF result.ok THEN result.value ELSE None)
         ELSE [g |-> g, hooks |-> <<>>], LAMBDA ac :
        [out |-> IF result.ok THEN Returned(json_dumps(result.value))
                 ELSE Returned(ErrorResult(result.msg)),
         g |-> ac.g, calls |-> calls, hooks |-> bc.hooks \o ac.hooks]))))

\* FlowplaneAgent._execute_tool:
\* [out |-> the result string returned or the exception raised,
\*  g |-> the guardrails afterwards, calls |-> boundary calls, hooks |-> hook calls]
_execute_tool(g, m, names, fn_name, fn_args) ==
    IF ~KnownTool(names, fn_name) THEN
        [out |-> Returned(ErrorResult("Unknown tool: " \o fn_name)),
         g |-> g, calls |-> <<>>, hooks |-> <<>>]
    ELSE
    With(IF g # None THEN before_call(g, m, fn_name, fn_args)
         ELSE [g |-> g, out |-> Returned(fn_args), calls |-> <<>>, hooks |-> <<>>],
         LAMBDA bc :
    IF ~bc.out.ok THEN
        [out |-> IF bc.out.exc = "GuardrailReject"
                 THEN Returned(ErrorResult(bc.out.msg)) ELSE bc.out,
         g |-> bc.g, calls |-> bc.calls, hooks |-> bc.hooks]
    ELSE
    With(Append(bc.calls, McpCall(fn_name, bc.out.value, "_execute_tool")),
         LAMBDA calls :
    With(call_tool(m, fn_name, bc.out.value), LAMBDA result :
    IF ~result.ok THEN
        [out |-> Returned(ErrorResult(result.msg)),
         g |-> bc.g, calls |-> calls, hooks |-> bc.hooks]
    ELSE
    With(IF g # None THEN after_call(bc.g, fn_name, bc.out.value, result.value)
         ELSE [g |-> g, hooks |-> <<>>], LAMBDA ac :
        [out |-> Returned(json_dumps(result.value)),
         g |-> ac.g, calls |-> calls, hooks |-> bc.hooks \o ac.hooks]))))

(***************************************************************************)
(* Inputs of the agent loop: the catalog, the server, the guardrails the    *)
(* agent is built with, and what the model may answer.                      *)
(***************************************************************************)
\* The catalog the agent is built with (allowed_tools keeps the cluster tools).
RegisteredTools == {"cp_create_cluster", "cp_list_clusters", "cp_delete_cluster"}

\* The server knows more tools than the agent's catalog.
ServerTools == RegisteredTools \cup {"dev_preflight_check", "cp_create_listener"}

ToolOutput(name) ==
    CASE name = "cp_create_cluster" -> [id |-> Str("c-1"), name |-> Str("a")]
      [] name = "cp_list_clusters" -> [clusters |-> <<>>]
      [] name = "cp_delete_cluster" -> <<>>
      [] name = "dev_preflight_check" -> [ok |-> TRUE]
      [] name = "cp_create_listener" -> [id |-> Str("l-1"), name |-> Str("l")]

\* A server on which exactly the tools of `failing` raise.
Server(failing) ==
    [name \in ServerTools |->
        [raises |-> name \in failing, result |-> ToolOutput(name)]]

McpServers ==
    {Server({}), Server({"dev_preflight_check"}), Server({"cp_create_cluster"})}

\* Guardrails with auto-preflight on, two pre-hooks and two post-hooks.
GuardedAgent ==
    add_post_hook(add_post_hook(
        add_pre_hook(add_pre_hook(enable_auto_preflight(NewGuardrails),
                                  "inject_team"), "reject_delete"),
        "exploding_hook"), "capture")

GuardrailChoices == {None, GuardedAgent}

\* function.name and function.arguments of the tool calls a model may emit:
\* a creation tool, a registered tool with arguments that are no JSON text,
\* and a creation tool that is not in the catalog.
ToolCallChoices ==
    {<<"cp_create_cluster", json_dumps([name |-> Str("a")])>>,
     <<"cp_delete_cluster", Str("{bad")>>,
     <<"cp_create_listener", json_dumps([name |-> Str("l")])>>}

\* The i-th tool call of the k-th response.
ToolCall(k, i, choice) ==
    [id |-> Str("call_" \o ToString(k) \o "_" \o ToString(i)),
     function |-> [name |-> choice[1], arguments |-> choice[2]]]

\* The k-th response of the model: text only (or nothing at all), one tool
\* call, two different tool calls, or text beside two tool calls.
Responses(k) ==
    {[content |-> c, tool_calls |-> <<>>] : c \in {None, Str("All done.")}}
    \cup
    {[content |-> None, tool_calls |-> <<ToolCall(k, 1, a)>>] :
        a \in ToolCallChoices}
    \cup
    {[content |-> None,
      tool_calls |-> <<ToolCall(k, 1, p[1]), ToolCall(k, 2, p[2])>>] :
        p \in {q \in ToolCallChoices \X ToolCallChoices : q[1] # q[2]}}
    \cup
    {[content |-> Str("Let me check."),
      tool_calls |-> <<ToolCall(k, 1, p[1]), ToolCall(k, 2, p[2])>>] :
        p \in {q \in ToolCallChoices \X ToolCallChoices :
                  q[1][1] = "cp_delete_cluster" /\ q[2][1] = "cp_create_cluster"}}

\* What run_stream is given as memory: none, or a new memory with a window
\* of 0, 1 or MaxHistory messages.
MemoryChoices ==
    {None} \cup {NewConversationMemory(h) : h \in {0, 1, MaxHistory}}

(***************************************************************************)
(* The agent loop as a state machine.  One action per blocking round-trip:  *)
(* a model call with the branch on its response, one iteration of the tool  *)
(* loop, the exit of the turn loop.                                         *)
(***************************************************************************)
\* self.llm.chat.completions.create: the k-th call of a run gets `response`,
\* the k-th response of the model's behaviour (one of Responses(k)), which is
\* fixed the first time it is asked.
create(k, response) ==
    /\ k <= Len(llm) => response = llm[k]
    /\ llm' = IF k <= Len(llm) THEN llm ELSE Append(llm, response)
    /\ llm_requests' = Append(llm_requests, messages)

\* The call in progress ends, returning or raising `out`.
Finish(fn, out, msgs, evs, mem) ==
    /\ completed' = Append(completed,
            [fn |-> fn, out |-> out, messages |-> msgs, events |-> evs,
             memory |-> mem, llm_requests |-> llm_requests',
             mcp_calls |-> mcp_calls'])
    /\ pc' = "idle"
    /\ messages' = <<>>
    /\ events' = <<>>
    /\ memory' = None
    /\ message' = None
    /\ tc_index' = 0
    /\ turn' = 0

\* try: json.loads(tool_call.function.arguments) except JSONDecodeError: {}
ParseArguments(tool_call) ==
    LET parsed == json_loads(tool_call.function.arguments)
    IN  IF parsed.ok THEN parsed.value ELSE <<>>

\* Variant of ToolTurn: every result carries the id of the response's first call.
ToolTurn_first_id(tool_call, result_str) ==
    [role |-> "tool", tool_call_id |-> message.tool_calls[1].id,
     content |-> result_str]

\* The dict appended to `messages` after an invocation, lines 445-449 and 518-522
ToolTurn(tool_call, result_str) ==
    [role |-> "tool", tool_call_id |-> tool_call.id, content |-> result_str]

\* The boundary calls of one invocation, tagged with the id of the invocation.
Tagged(calls, tool_call) ==
    [i \in 1..Len(calls) |->
        [name |-> calls[i].name, arguments |-> calls[i].arguments,
         site |-> calls[i].site, tool_call_id |-> tool_call.id]]

\* Variant of InRange: one iteration too many.
InRange_inclusive(t, n) == t <= n

\* `for turn in range(self.max_turns)`: is there an iteration for t
InRange(t, n) == t < n

\* FlowplaneAgent.run, lines 414-419
Run ==
    /\ pc = "idle" /\ completed = <<>>
    /\ messages' = <<[role |-> "system", content |-> system_prompt],
                     [role |-> "user", content |-> user_message]>>
    /\ guardrails' = IF guardrails # None THEN reset_turn(guardrails) ELSE guardrails
    /\ turn' = 0
    /\ pc' = "run_model"
    /\ llm_requests' = <<>>
    /\ mcp_calls' = <<>>
    /\ UNCHANGED <<tool_names, max_turns, mcp, llm, hook_calls, message, tc_index,
                   memory, events, completed>>

\* FlowplaneAgent.run, lines 421-434: one model call and the branch on it
RunModelCall ==
    /\ pc = "run_model" /\ InRange(turn, max_turns)
    /\ \E response \in Responses(turn + 1) :
        /\ create(turn + 1, response)
        /\ IF response.tool_calls = <<>> THEN
              /\ mcp_calls' = mcp_calls
              /\ Finish("run",
                        Returned(IF StrTruthy(response.content)
                                 THEN response.content ELSE Str("")),
                        messages, events, memory)
           ELSE
              /\ message' = response
              /\ messages' = Append(messages,
                    [role |-> "assistant", content |-> response.content,
                     tool_calls |-> response.tool_calls])
              /\ tc_index' = 1
              /\ pc' = "run_tools"
              /\ UNCHANGED <<turn, memory, events, mcp_calls, completed>>
    /\ UNCHANGED <<tool_names, max_turns, guardrails, mcp, hook_calls>>

\* FlowplaneAgent.run, lines 436-449: one iteration of the tool loop
RunToolCall ==
    /\ pc = "run_tools"
    /\ LET tool_call == message.tool_calls[tc_index]
           fn_name == tool_call.function.name
           fn_args == ParseArguments(tool_call)
       IN  \E ex \in {_execute_tool(guardrails, mcp, tool_names, fn_name, fn_args)} :
           /\ guardrails' = ex.g
           /\ mcp_calls' = mcp_calls \o Tagged(ex.calls, tool_call)
           /\ hook_calls' = hook_calls \o ex.hooks
           /\ llm_requests' = llm_requests
           /\ IF ~ex.out.ok THEN
                 Finish("run", ex.out, messages, events, memory)
              ELSE
                 /\ messages' = Append(messages, ToolTurn(tool_call, ex.out.value))
                 /\ IF tc_index < Len(message.tool_calls)
                    THEN /\ tc_index' = tc_index + 1
                         /\ UNCHANGED <<pc, turn>>
                    ELSE /\ tc_index' = 0
                         /\ turn' = turn + 1
                         /\ pc' = "run_model"
                 /\ UNCHANGED <<message, memory, events, completed>>
    /\ UNCHANGED <<tool_names, max_turns, mcp, llm>>

\* Variant of RunExhausted: run returns the sentinel.
RunExhausted_sentinel ==
    /\ pc = "run_model" /\ ~InRange(turn, max_turns)
    /\ UNCHANGED <<llm_requests, mcp_calls>>
    /\ Finish("run", Returned(MaxTurnsReached), messages, events, memory)
    /\ UNCHANGED <<tool_names, max_turns, guardrails, mcp, llm, hook_calls>>

\* FlowplaneAgent.run, line 451: the turn loop is over
RunExhausted ==
    /\ pc = "run_model" /\ ~InRange(turn, max_turns)
    /\ LET last == Last(messages)
       IN  /\ UNCHANGED <<llm_requests, mcp_calls>>
           /\ Finish("run",
                     IF last.role = "assistant"
                     THEN Raised("AttributeError", "object has no attribute 'get'")
                     ELSE Returned(DictGet(last, "content", MaxTurnsReached)),
                     messages, events, memory)
    /\ UNCHANGED <<tool_names, max_turns, guardrails, mcp, llm, hook_calls>>

Event(type, content) == [type |-> type, content |-> content]

\* Variant of ThinkingEvents: the event is emitted whatever the content.
ThinkingEvents_always(content) == <<Event("thinking", content)>>

\* run_stream, lines 496-497: `if message.content: yield {"type": "thinking", ...}`
ThinkingEvents(content) ==
    IF StrTruthy(content) THEN <<Event("thinking", content)>> ELSE <<>>

\* FlowplaneAgent.run_stream, lines 466-476, called with memory `mem`
RunStream(mem) ==
    /\ pc = "idle" /\ Len(completed) = 1
    /\ IF mem # None THEN
          LET m1 == add(mem, [role |-> "user", content |-> user_message])
          IN  /\ memory' = m1
              /\ messages' = to_messages(m1, guardrails, system_prompt)
       ELSE
          /\ memory' = None
          /\ messages' = <<[role |-> "system", content |-> system_prompt],
                           [role |-> "user", content |-> user_message]>>
    /\ guardrails' = IF guardrails # None THEN reset_turn(guardrails) ELSE guardrails
    /\ turn' = 0
    /\ pc' = "stream_model"
    /\ events' = <<>>
    /\ llm_requests' = <<>>
    /\ mcp_calls' = <<>>
    /\ UNCHANGED <<tool_names, max_turns, mcp, llm, hook_calls, message, tc_index,
                   completed>>

\* FlowplaneAgent.run_stream, lines 478-499: one model call and the branch on it
StreamModelCall ==
    /\ pc = "stream_model" /\ InRange(turn, max_turns)
    /\ \E response \in Responses(turn + 1) :
        /\ create(turn + 1, response)
        /\ IF response.tool_calls = <<>> THEN
              LET content == IF StrTruthy(response.content)
                             THEN response.content ELSE Str("")
              IN  /\ mcp_calls' = mcp_calls
                  /\ Finish("run_stream", Returned(None), messages,
                            Append(events, Event("answer", content)),
                            IF memory # None
                            THEN add(memory, [role |-> "assistant",
                                              content |-> content])
                            ELSE memory)
           ELSE
              /\ events' = events \o ThinkingEvents(response.content)
              /\ message' = response
              /\ messages' = Append(messages,
                    [role |-> "assistant", content |-> response.content,
                     tool_calls |-> response.tool_calls])
              /\ tc_index' = 1
              /\ pc' = "stream_tools"
              /\ UNCHANGED <<turn, memory, mcp_calls, completed>>
    /\ UNCHANGED <<tool_names, max_turns, guardrails, mcp, hook_calls>>

\* FlowplaneAgent.run_stream, lines 501-522: one iteration of the tool loop
StreamToolCall ==
    /\ pc = "stream_tools"
    /\ LET tool_call == message.tool_calls[tc_index]
           fn_name == tool_call.function.name
           fn_args == ParseArguments(tool_call)
           call_event == [type |-> "tool_call", name |-> fn_name, args |-> fn_args]
       IN  \E ex \in {_execute_tool(guardrails, mcp, tool_names, fn_name, fn_args)} :
           LET parsed == json_loads(ex.out.value)
               result_parsed == IF parsed.ok THEN parsed.value ELSE ex.out.value
               result_event == [type |-> "tool_result", name |-> fn_name,
                                result |-> result_parsed]
           IN
           /\ guardrails' = ex.g
           /\ mcp_calls' = mcp_calls \o Tagged(ex.calls, tool_call)
           /\ hook_calls' = hook_calls \o ex.hooks
           /\ llm_requests' = llm_requests
           /\ IF ~ex.out.ok THEN
                 Finish("run_stream", ex.out, messages, Append(events, call_event),
                        memory)
              ELSE
                 /\ events' = events \o <<call_event, result_event>>
                 /\ messages' = Append(messages, ToolTurn(tool_call, ex.out.value))
                 /\ IF tc_index < Len(message.tool_calls)
                    THEN /\ tc_index' = tc_index + 1
                         /\ UNCHANGED <<pc, turn>>
                    ELSE /\ tc_index' = 0
                         /\ turn' = turn + 1
                         /\ pc' = "stream_model"
                 /\ UNCHANGED <<message, memory, completed>>
    /\ UNCHANGED <<tool_names, max_turns, mcp, llm>>

\* Variant of StreamExhausted: the answer is taken from the last message, as
\* run does.
StreamExhausted_last_message ==
    /\ pc = "stream_model" /\ ~InRange(turn, max_turns)
    /\ UNCHANGED <<llm_requests, mcp_calls>>
    /\ Finish("run_stream", Returned(None), messages,
              Append(events, Event("answer",
                        DictGet(Last(messages), "content", MaxTurnsReached))),
              memory)
    /\ UNCHANGED <<tool_names, max_turns, guardrails, mcp, llm, hook_calls>>

\* Variant of StreamExhausted: the sentinel is stored in the memory as the
\* assistant's turn.
StreamExhausted_remember ==
    /\ pc = "stream_model" /\ ~InRange(turn, max_turns)
    /\ UNCHANGED <<llm_requests, mcp_calls>>
    /\ Finish("run_stream", Returned(None), messages,
              Append(events, Event("answer", MaxTurnsReached)),
              IF memory # None
              THEN add(memory, [role |-> "assistant", content |-> MaxTurnsReached])
              ELSE memory)
    /\ UNCHANGED <<tool_names, max_turns, guardrails, mcp, llm, hook_calls>>

\* FlowplaneAgent.run_stream, line 524: the turn loop is over
StreamExhausted ==
    /\ pc = "stream_model" /\ ~InRange(turn, max_turns)
    /\ UNCHANGED <<llm_requests, mcp_calls>>
    /\ Finish("run_stream", Returned(None), messages,
              Append(events, Event("answer", MaxTurnsReached)), memory)
    /\ UNCHANGED <<tool_names, max_turns, guardrails, mcp, llm, hook_calls>>

\* mcp_to_openai_tools has not been called
InitToolsIdle ==
    /\ mcp_tools = <<>>
    /\ allowed = None
    /\ openai_tools = None

\* run_agent_scenario has not been called
InitHarnessIdle ==
    /\ stream = <<>>
    /\ worker = [pc |-> "idle", pending_call |-> None]
    /\ waiter = "idle"
    /\ tool_calls = <<>>
    /\ answer = Str("")
    /\ turn_count = 0
    /\ timed_out = FALSE
    /\ error_msg = None
    /\ trace = None

InitReplayIdle ==
    /\ mode = "replay"
    /\ _turn = 0
    /\ _turns = <<>>
    /\ _id_map = <<>>
    /\ cassette = None
    /\ replay_log = <<>>
    /\ saved = None
    /\ real_client = None
    /\ constructed = None

\* A FlowplaneAgent has been constructed; nothing has been asked of it.
Init ==
    /\ tool_names = RegisteredTools
    /\ max_turns \in 0..MaxTurns
    /\ guardrails \in GuardrailChoices
    /\ mcp \in McpServers
    /\ llm = <<>>
    /\ hook_calls = <<>>
    /\ pc = "idle"
    /\ messages = <<>>
    /\ turn = 0
    /\ message = None
    /\ tc_index = 0
    /\ memory = None
    /\ events = <<>>
    /\ llm_requests = <<>>
    /\ mcp_calls = <<>>
    /\ completed = <<>>
    /\ InitReplayIdle
    /\ guard_log = <<>>
    /\ memory_log = <<>>
    /\ InitToolsIdle
    /\ InitHarnessIdle

Next ==
    \/ (Run /\ UNCHANGED <<replayVars, guardVars, constructVars, toolVars, harnessVars>>)
    \/ (RunModelCall /\ UNCHANGED <<replayVars, guardVars, constructVars, toolVars, harnessVars>>)
    \/ (RunToolCall /\ UNCHANGED <<replayVars, guardVars, constructVars, toolVars, harnessVars>>)
    \/ (RunExhausted /\ UNCHANGED <<replayVars, guardVars, constructVars, toolVars, harnessVars>>)
    \/ (\E mem \in MemoryChoices : RunStream(mem) /\ UNCHANGED <<replayVars, guardVars, constructVars, toolVars, harnessVars>>)
    \/ (StreamModelCall /\ UNCHANGED <<replayVars, guardVars, constructVars, toolVars, harnessVars>>)
    \/ (StreamToolCall /\ UNCHANGED <<replayVars, guardVars, constructVars, toolVars, harnessVars>>)
    \/ (StreamExhausted /\ UNCHANGED <<replayVars, guardVars, constructVars, toolVars, harnessVars>>)

Spec == Init /\ [][Next]_vars

(***************************************************************************)
(* A Guardrails object used on its own, as the unit tests and the agent do: *)
(* before_call and reset_turn are called directly, and _execute_tool of an  *)
(* agent that holds the guardrails is called.  guard_log keeps one entry    *)
(* per call.                                                                *)
(***************************************************************************)
\* The catalog of the agent that holds the guardrails
GuardCatalog == {"cp_create_listener", "cp_create_cluster", "cp_delete_cluster"}

\* What the server answers: `dataplanes` is what it lists as dataplanes; it
\* has a listener "l" on a port in use and no cluster.
GuardToolOutput(name, dataplanes) ==
    CASE name = "dev_preflight_check" -> [ok |-> TRUE]
      [] name = "cp_list_dataplanes" -> [dataplanes |-> dataplanes]
      [] name = "cp_create_dataplane" -> [id |-> Str("dp-new"), name |-> Str("default-dp")]
      [] name = "cp_list_listeners" -> [listeners |-> <<[name |-> Str("l")]>>]
      [] name = "cp_list_clusters" -> [clusters |-> <<>>]
      [] name = "cp_query_port" -> [in_use |-> TRUE, listener |-> [name |-> Str("l")]]
      [] name = "cp_create_listener" -> [id |-> Str("l-1")]
      [] name = "cp_create_cluster" -> [id |-> Str("c-1")]
      [] name = "cp_delete_cluster" -> <<>>

GuardServerTools ==
    {"dev_preflight_check", "cp_list_dataplanes", "cp_create_dataplane",
     "cp_list_listeners", "cp_list_clusters", "cp_query_port",
     "cp_create_listener", "cp_create_cluster", "cp_delete_cluster"}

\* A server on which exactly the tools of `failing` raise
GuardServer(failing, dataplanes) ==
    [name \in GuardServerTools |->
        [raises |-> name \in failing, result |-> GuardToolOutput(name, dataplanes)]]

\* A healthy server, servers on which one of the tools that the built-in
\* stages call raises, and servers without any dataplane
GuardServers ==
    {GuardServer(failing, <<[id |-> Str("dp-42"), name |-> Str("dp")]>>) :
        failing \in {{}, {"dev_preflight_check"}, {"cp_list_dataplanes"},
                     {"cp_list_listeners"}, {"cp_query_port"}}}
    \cup {GuardServer(failing, <<>>) : failing \in {{}, {"cp_create_dataplane"}}}

\* The guardrails of the dev agent: every built-in stage enabled
AllBuiltIns ==
    enable_port_validation(
        enable_name_dedup(
            enable_dataplane_injection(enable_auto_preflight(NewGuardrails))),
        10000, 10020)

\* The same with three pre-hooks registered
HookedBuiltIns ==
    add_pre_hook(add_pre_hook(add_pre_hook(AllBuiltIns, "inject_team"),
                              "reject_delete"), "capture")

GuardrailConfigs == {AllBuiltIns, HookedBuiltIns}

\* (tool_name, args) of the calls: a listener whose name is taken, on a port
\* outside the range and without dataplane; a listener that no stage has to
\* change; a cluster; a call that is no creation
GuardCalls ==
    {<<"cp_create_listener", [name |-> Str("l"), port |-> 8080]>>,
     <<"cp_create_listener", [name |-> Str("m"), dataplaneId |-> Str("dp-x")]>>,
     <<"cp_create_cluster", [name |-> Str("a")]>>,
     <<"cp_delete_cluster", [id |-> Str("c-1")]>>}

\* One entry of guard_log
GuardOp(op, tool_name, args, out, calls, hooks, staged, same, caller) ==
    [op |-> op, tool_name |-> tool_name, args |-> args, out |-> out,
     calls |-> calls, hooks |-> hooks, staged |-> staged, same |-> same,
     caller |-> caller]

\* guardrails.before_call(tool_name, args)
BeforeCall(tool_name, args) ==
    /\ Len(guard_log) < MaxOps
    /\ \E bc \in {before_call(guardrails, mcp, tool_name, args)} :
          /\ guardrails' = bc.g
          /\ mcp_calls' = mcp_calls \o bc.calls
          /\ hook_calls' = hook_calls \o bc.hooks
          /\ guard_log' = Append(guard_log,
                GuardOp("before_call", tool_name, args, bc.out, bc.calls,
                        bc.hooks, bc.staged, bc.same, bc.caller))
    /\ UNCHANGED <<tool_names, max_turns, mcp, llm, pc, messages, turn, message,
                   tc_index, memory, events, llm_requests, completed,
                   memory_log>>

\* guardrails.reset_turn()
ResetTurn ==
    /\ Len(guard_log) < MaxOps
    /\ guardrails' = reset_turn(guardrails)
    /\ guard_log' = Append(guard_log,
            GuardOp("reset_turn", "", <<>>, Returned(None), <<>>, <<>>, <<>>,
                    TRUE, <<>>))
    /\ UNCHANGED <<tool_names, max_turns, mcp, llm, hook_calls, pc, messages,
                   turn, message, tc_index, memory, events, llm_requests,
                   mcp_calls, completed,
                   memory_log>>

\* agent._execute_tool(fn_name, fn_args)
ExecuteTool(fn_name, fn_args) ==
    /\ Len(guard_log) < MaxOps
    /\ \E ex \in {_execute_tool(guardrails, mcp, tool_names, fn_name, fn_args)} :
          /\ guardrails' = ex.g
          /\ mcp_calls' = mcp_calls \o ex.calls
          /\ hook_calls' = hook_calls \o ex.hooks
          /\ guard_log' = Append(guard_log,
                GuardOp("_execute_tool", fn_name, fn_args, ex.out, ex.calls,
                        ex.hooks, <<>>, TRUE, <<>>))
    /\ UNCHANGED <<tool_names, max_turns, mcp, llm, pc, messages, turn, message,
                   tc_index, memory, events, llm_requests, completed,
                   memory_log>>

\* Guardrails have been constructed and configured on a server, and an
\* agent holds them.
InitGuardrails ==
    /\ tool_names = GuardCatalog
    /\ max_turns = 0
    /\ guardrails \in GuardrailConfigs
    /\ mcp \in GuardServers
    /\ llm = <<>>
    /\ hook_calls = <<>>
    /\ pc = "idle"
    /\ messages = <<>>
    /\ turn = 0
    /\ message = None
    /\ tc_index = 0
    /\ memory = None
    /\ events = <<>>
    /\ llm_requests = <<>>
    /\ mcp_calls = <<>>
    /\ completed = <<>>
    /\ InitReplayIdle
    /\ guard_log = <<>>
    /\ memory_log = <<>>
    /\ InitToolsIdle
    /\ InitHarnessIdle

NextGuardrails ==
    \/ (\E c \in GuardCalls : BeforeCall(c[1], c[2]) /\ UNCHANGED <<replayVars, constructVars, toolVars, harnessVars>>)
    \/ (ResetTurn /\ UNCHANGED <<replayVars, constructVars, toolVars, harnessVars>>)
    \/ (ExecuteTool("cp_create_listener", [name |-> Str("l"), port |-> 8080])
            /\ UNCHANGED <<replayVars, constructVars, toolVars, harnessVars>>)

SpecGuardrails == InitGuardrails /\ [][NextGuardrails]_vars

(***************************************************************************)
(* The built-in stages one at a time: guardrails with a single stage        *)
(* enabled, on servers whose answers exercise that stage, receive           *)
(* before_call.                                                             *)
(***************************************************************************)
\* A server that answers cp_list_dataplanes with `dataplanes_resp`, lists
\* the names of `existing` as listeners and as clusters, and answers
\* cp_query_port with `port_resp`
StageServer(failing, dataplanes_resp, existing, port_resp) ==
    [name \in GuardServerTools |->
        [raises |-> name \in failing,
         result |->
            CASE name = "cp_list_dataplanes" -> dataplanes_resp
              [] name = "cp_list_listeners" ->
                    [listeners |-> [j \in 1..Len(existing) |-> [name |-> existing[j]]]]
              [] name = "cp_list_clusters" ->
                    [clusters |-> [j \in 1..Len(existing) |-> [name |-> existing[j]]]]
              [] name = "cp_query_port" -> port_resp
              [] OTHER -> GuardToolOutput(name, <<>>)]]

\* What cp_list_dataplanes answers: two dataplanes, one under "items", one
\* whose id is spelled "Id", none
DataplaneAnswers ==
    {[dataplanes |-> <<[id |-> Str("dp-42"), name |-> Str("dp")],
                       [id |-> Str("dp-43"), name |-> Str("dp2")]>>],
     [items |-> <<[id |-> Str("dp-items")]>>],
     [dataplanes |-> <<[Id |-> Str("dp-cap")]>>],
     [dataplanes |-> <<>>]}

\* The names that exist on the server: none, the proposed name "l" with and
\* without some of its successors, and "l" with every candidate that
\* `range(2, 100)` offers, l-2 to l-99
ExistingNames ==
    {<<>>, <<Str("l")>>, <<Str("l"), Str("l-2")>>, <<Str("l-2"), Str("l-3")>>,
     <<Str("l-3"), Str("l"), Str("l-2")>>,
     <<Str("l")>> \o [j \in 1..98 |-> Candidate(Str("l"), j + 1)]}

\* What cp_query_port answers
PortAnswers ==
    {[in_use |-> FALSE],
     [in_use |-> TRUE],
     [listener |-> [name |-> Str("l")]],
     [in_use |-> TRUE, listener |-> Str("l")]}

InjectionOnly == enable_dataplane_injection(NewGuardrails)
DedupOnly == enable_name_dedup(NewGuardrails)
PortOnly == enable_port_validation(NewGuardrails, 10000, 10020)

\* <<guardrails, server>>
StageSetups ==
    {<<g, StageServer({}, d, <<>>, [in_use |-> FALSE])>> :
        g \in {InjectionOnly}, d \in DataplaneAnswers}
    \cup {<<InjectionOnly,
            StageServer({"cp_create_dataplane"}, [dataplanes |-> <<>>], <<>>,
                        [in_use |-> FALSE])>>}
    \cup {<<g, StageServer({}, [dataplanes |-> <<>>], e, [in_use |-> FALSE])>> :
            g \in {DedupOnly}, e \in ExistingNames}
    \cup {<<g, StageServer({}, [dataplanes |-> <<>>], <<>>, p)>> :
            g \in {PortOnly}, p \in PortAnswers}
    \cup {<<PortOnly,
            StageServer({"cp_query_port"}, [dataplanes |-> <<>>], <<>>,
                        [in_use |-> TRUE])>>}
    \cup {<<g, StageServer({}, d, <<Str("l")>>, [in_use |-> TRUE])>> :
            g \in {AllBuiltIns},
            d \in {[dataplanes |-> <<>>], [items |-> <<[id |-> Str("dp-items")]>>]}}

\* The ports: below the range, its two ends, above it
StagePorts == {9999, 10000, 10020, 10021}

\* (tool_name, args) of the calls
StageCalls ==
    {<<"cp_create_listener", [name |-> Str("l")]>>,
     <<"cp_create_listener", [name |-> Str("l"), dataplaneId |-> Str("")]>>,
     <<"cp_create_listener", [name |-> Str("l"), dataplaneId |-> Str("dp-x")]>>,
     <<"cp_create_cluster", [name |-> Str("l")]>>,
     <<"cp_delete_cluster", [id |-> Str("c-1")]>>}
    \cup {<<"cp_create_listener", [name |-> Str("m"), port |-> p]>> : p \in StagePorts}

\* guardrails.before_call(tool_name, args), at most MaxStageCalls times
StageCall(tool_name, args) ==
    /\ Len(guard_log) < MaxStageCalls
    /\ BeforeCall(tool_name, args)

InitStages ==
    /\ tool_names = GuardCatalog
    /\ max_turns = 0
    /\ \E s \in StageSetups : guardrails = s[1] /\ mcp = s[2]
    /\ llm = <<>>
    /\ hook_calls = <<>>
    /\ pc = "idle"
    /\ messages = <<>>
    /\ turn = 0
    /\ message = None
    /\ tc_index = 0
    /\ memory = None
    /\ events = <<>>
    /\ llm_requests = <<>>
    /\ mcp_calls = <<>>
    /\ completed = <<>>
    /\ InitReplayIdle
    /\ guard_log = <<>>
    /\ memory_log = <<>>
    /\ InitToolsIdle
    /\ InitHarnessIdle

NextStages ==
    \E c \in StageCalls : StageCall(c[1], c[2]) /\ UNCHANGED <<replayVars, constructVars, toolVars, harnessVars>>

SpecStages == InitStages /\ [][NextStages]_vars

(***************************************************************************)
(* The manifest: before_call, after_call, reset_turn and _execute_tool on   *)
(* one Guardrails object, with and without post-hooks.                      *)
(***************************************************************************)
\* A server without dataplanes, listeners and clusters
EmptyServer == StageServer({}, [dataplanes |-> <<>>], <<>>, [in_use |-> FALSE])

\* Guardrails without hooks, and guardrails with dataplane injection and
\* three post-hooks of which the second raises
PostHooked ==
    add_post_hook(add_post_hook(add_post_hook(InjectionOnly, "hook_a"),
                                "exploding_hook"), "hook_b")

ManifestConfigs == {InjectionOnly, PostHooked}

\* (tool_name, args, result) of the after_call calls
AfterCalls ==
    {<<"cp_create_cluster", [name |-> Str("my-cluster"), address |-> Str("10.0.0.1")],
       [id |-> Str("cluster-1")]>>,
     <<"cp_create_listener", [name |-> Str("l1"), port |-> 8080],
       [Id |-> Str("listener-1")]>>,
     <<"cp_create_route", [name |-> Str("r1")], [ID |-> Str("route-99")]>>,
     <<"cp_create_route", <<>>, [ID |-> Str("C"), Id |-> Str("B")]>>,
     <<"cp_create_route", <<>>, [ID |-> Str("C"), Id |-> Str("B"), id |-> Str("A")]>>,
     <<"cp_create_filter", [name |-> Str("f1")], [status |-> Str("ok")]>>,
     <<"cp_create_filters", [name |-> Str("f2")], [id |-> Str("f-2")]>>,
     <<"cp_create_cluster", [name |-> Str("c")], None>>,
     <<"cp_delete_cluster", [id |-> Str("1")], <<>>>>,
     <<"cp_create_widget", [name |-> Str("x")], [id |-> Str("1")]>>}

\* One after_call entry of guard_log
AfterOp(tool_name, args, result, hooks) ==
    [op |-> "after_call", tool_name |-> tool_name, args |-> args,
     result |-> result, out |-> Returned(None), calls |-> <<>>, hooks |-> hooks]

\* guardrails.after_call(tool_name, args, result)
AfterCall(tool_name, args, result) ==
    /\ Len(guard_log) < MaxManifestOps
    /\ \E ac \in {after_call(guardrails, tool_name, args, result)} :
          /\ guardrails' = ac.g
          /\ hook_calls' = hook_calls \o ac.hooks
          /\ guard_log' = Append(guard_log,
                AfterOp(tool_name, args, result, ac.hooks))
    /\ UNCHANGED <<tool_names, max_turns, mcp, llm, pc, messages, turn, message,
                   tc_index, memory, events, llm_requests, mcp_calls, completed,
                   memory_log>>

InitManifest ==
    /\ tool_names = GuardCatalog
    /\ max_turns = 0
    /\ guardrails \in ManifestConfigs
    /\ mcp = EmptyServer
    /\ llm = <<>>
    /\ hook_calls = <<>>
    /\ pc = "idle"
    /\ messages = <<>>
    /\ turn = 0
    /\ message = None
    /\ tc_index = 0
    /\ memory = None
    /\ events = <<>>
    /\ llm_requests = <<>>
    /\ mcp_calls = <<>>
    /\ completed = <<>>
    /\ InitReplayIdle
    /\ guard_log = <<>>
    /\ memory_log = <<>>
    /\ InitToolsIdle
    /\ InitHarnessIdle

NextManifest ==
    \/ (\E c \in AfterCalls : AfterCall(c[1], c[2], c[3]) /\ UNCHANGED <<replayVars, constructVars, toolVars, harnessVars>>)
    \/ (/\ Len(guard_log) < MaxManifestOps
        /\ BeforeCall("cp_create_listener", [name |-> Str("l")])
        /\ UNCHANGED <<replayVars, constructVars, toolVars, harnessVars>>)
    \/ (Len(guard_log) < MaxManifestOps /\ ResetTurn /\ UNCHANGED <<replayVars, constructVars, toolVars, harnessVars>>)
    \/ (/\ Len(guard_log) < MaxManifestOps
        /\ ExecuteTool("cp_create_listener", [name |-> Str("l"), port |-> 8080])
        /\ UNCHANGED <<replayVars, constructVars, toolVars, harnessVars>>)

SpecManifest == InitManifest /\ [][NextManifest]_vars

(***************************************************************************)
(* A ConversationMemory used on its own, linked or not to the manifest of   *)
(* a Guardrails object that records creations meanwhile.  memory_log keeps  *)
(* one entry per call.                                                      *)
(***************************************************************************)
\* All turns inserted by the calls of `log`, in order
RECURSIVE InsertedBy(_)
InsertedBy(log) ==
    IF log = <<>> THEN <<>> ELSE InsertedBy(SubSeq(log, 1, Len(log) - 1)) \o Last(log).msgs

\* The next k turns to insert: the n-th turn inserted says "msg-n"
NextTurns(k) ==
    [j \in 1..k |->
        [role |-> IF (Len(InsertedBy(memory_log)) + j) % 2 = 1
                  THEN "user" ELSE "assistant",
         content |-> Str("msg-" \o ToString(Len(InsertedBy(memory_log)) + j))]]

\* One entry of memory_log: the call, the turns it inserted, what it
\* returned, and the manifest of the guardrails when it was made
MemoryOp(op, msgs, out) ==
    [op |-> op, msgs |-> msgs, out |-> out, manifest |-> guardrails.manifest]

\* What a call on the memory leaves alone
MemoryFrame ==
    UNCHANGED <<tool_names, max_turns, mcp, llm, hook_calls, pc, messages, turn,
                message, tc_index, events, llm_requests, mcp_calls, completed,
                guard_log, replayVars, constructVars, toolVars, harnessVars>>

\* memory.add(message)
MemoryAdd ==
    /\ Len(memory_log) < MaxMemoryOps
    /\ memory' = add(memory, NextTurns(1)[1])
    /\ memory_log' = Append(memory_log, MemoryOp("add", NextTurns(1), None))
    /\ UNCHANGED guardrails
    /\ MemoryFrame

\* memory.add_many(messages), for k messages
MemoryAddMany(k) ==
    /\ Len(memory_log) < MaxMemoryOps
    /\ memory' = add_many(memory, NextTurns(k))
    /\ memory_log' = Append(memory_log, MemoryOp("add_many", NextTurns(k), None))
    /\ UNCHANGED guardrails
    /\ MemoryFrame

\* memory.reset()
MemoryReset ==
    /\ Len(memory_log) < MaxMemoryOps
    /\ memory' = reset(memory)
    /\ memory_log' = Append(memory_log, MemoryOp("reset", <<>>, None))
    /\ UNCHANGED guardrails
    /\ MemoryFrame

\* memory.link_manifest(guardrails.manifest)
MemoryLinkManifest ==
    /\ Len(memory_log) < MaxMemoryOps
    /\ memory' = link_manifest(memory, guardrails)
    /\ memory_log' = Append(memory_log, MemoryOp("link_manifest", <<>>, None))
    /\ UNCHANGED guardrails
    /\ MemoryFrame

\* memory.to_messages(system_prompt): nothing is assigned to the memory
MemoryToMessages ==
    /\ Len(memory_log) < MaxMemoryOps
    /\ memory_log' = Append(memory_log,
            MemoryOp("to_messages", <<>>,
                     to_messages(memory, guardrails, system_prompt)))
    /\ UNCHANGED <<memory, guardrails>>
    /\ MemoryFrame

\* guardrails.after_call(tool_name, args, result), between two calls on the
\* memory
MemoryAfterCall(tool_name, args, result) ==
    /\ Len(memory_log) < MaxMemoryOps
    /\ guardrails' = after_call(guardrails, tool_name, args, result).g
    /\ memory_log' = Append(memory_log, MemoryOp("after_call", <<>>, None))
    /\ UNCHANGED memory
    /\ MemoryFrame

\* (tool_name, args, result) of the creations recorded meanwhile
MemoryCreations ==
    {<<"cp_create_cluster", [name |-> Str("web")], [id |-> Str("c1")]>>,
     <<"cp_create_listener", [name |-> Str("http")], [id |-> Str("l1")]>>}

InitMemory ==
    /\ tool_names = GuardCatalog
    /\ max_turns = 0
    /\ guardrails = NewGuardrails
    /\ mcp = EmptyServer
    /\ llm = <<>>
    /\ hook_calls = <<>>
    /\ pc = "idle"
    /\ messages = <<>>
    /\ turn = 0
    /\ message = None
    /\ tc_index = 0
    /\ memory \in {NewConversationMemory(c) : c \in 0..MaxHistory}
    /\ events = <<>>
    /\ llm_requests = <<>>
    /\ mcp_calls = <<>>
    /\ completed = <<>>
    /\ InitReplayIdle
    /\ guard_log = <<>>
    /\ memory_log = <<>>
    /\ InitToolsIdle
    /\ InitHarnessIdle

NextMemory ==
    \/ MemoryAdd
    \/ (\E k \in {0, 2, MaxHistory + 1} : MemoryAddMany(k))
    \/ MemoryReset
    \/ MemoryLinkManifest
    \/ MemoryToMessages
    \/ (\E c \in MemoryCreations : MemoryAfterCall(c[1], c[2], c[3]))

SpecMemory == InitMemory /\ [][NextMemory]_vars

(***************************************************************************)
(* The record/replay client (testing/replay.py).  A ChatCompletion object   *)
(* is [ChatCompletion |-> data], data being its JSON-safe dict; a recorded  *)
(* turn is the dict {"turn", "response", "tool_names"[, "tool_results"]}.   *)
(* Dataplane ids are strs, schema ids are ints.  A message without tool     *)
(* calls has tool_calls <<>>: the code reads it as `tool_calls or []`.      *)
(***************************************************************************)
\* response.model_dump(mode="json")
serialize_response(response) == response.ChatCompletion

\* ChatCompletion.model_validate(data)
deserialize_response(data) == [ChatCompletion |-> data]

_ID_SOURCE_TOOLS == {"cp_list_dataplanes", "cp_list_aggregated_schemas"}

\* str(n) of an int, and int(s) of the str of an int
py_str(n) == Str(ToString(n))
py_int(s) == CHOOSE n \in 0..99 : py_str(n) = s

\* learn_from_results: the key a resource is matched by, dp["name"] for a
\* dataplane and (s["http_method"], s["path"]) for a schema
KeyOf(kind, item) ==
    IF kind = "dataplanes" THEN item["name"]
    ELSE <<item["http_method"], item["path"]>>

\* learn_from_results: how an id is written in the map
IdKey(kind, id) == IF kind = "dataplanes" THEN id ELSE py_str(id)

\* Variant of RecordedHits: every recorded item counts as a match.
RecordedHits_any_name(recorded_items, kind, key) == 1..Len(recorded_items)

\* rec_by_name / rec_by_key of learn_from_results: the positions of the
\* recorded items with this key; in the dict the last of them wins
RecordedHits(recorded_items, kind, key) ==
    {i \in 1..Len(recorded_items) : KeyOf(kind, recorded_items[i]) = key}

\* `if rec_id and rec_id != dp["id"]`, `if rec_id is not None and rec_id != s["id"]`
Learnable(kind, hits, recorded_items, live_id) ==
    /\ hits # {}
    /\ With(recorded_items[CHOOSE i \in hits : \A j \in hits : j <= i]["id"],
            LAMBDA rec_id :
                /\ kind = "dataplanes" => rec_id \notin {None, Str("")}
                /\ rec_id # live_id)

\* The loops `for dp in live_result.get(...)` of learn_from_results, from
\* live item i on
RECURSIVE LearnFrom(_, _, _, _, _)
LearnFrom(map, kind, recorded_items, live_items, i) ==
    IF i > Len(live_items) THEN map
    ELSE With(RecordedHits(recorded_items, kind, KeyOf(kind, live_items[i])),
              LAMBDA hits :
         LearnFrom(IF Learnable(kind, hits, recorded_items, live_items[i]["id"])
                   THEN DictSet(map,
                            IdKey(kind, recorded_items[CHOOSE h \in hits :
                                            \A j \in hits : j <= h]["id"]),
                            IdKey(kind, live_items[i]["id"]))
                   ELSE map,
                   kind, recorded_items, live_items, i + 1))

\* Variant of learn_from_results: the map is built anew from this result.
learn_from_results_afresh(map, tool_name, recorded_result, live_result) ==
    IF tool_name = "cp_list_dataplanes" THEN
        LearnFrom(<<>>, "dataplanes", DictGet(recorded_result, "dataplanes", <<>>),
                  DictGet(live_result, "dataplanes", <<>>), 1)
    ELSE IF tool_name = "cp_list_aggregated_schemas" THEN
        LearnFrom(<<>>, "schemas", DictGet(recorded_result, "schemas", <<>>),
                  DictGet(live_result, "schemas", <<>>), 1)
    ELSE <<>>

\* IdRewriteMap.learn_from_results: the map afterwards
learn_from_results(map, tool_name, recorded_result, live_result) ==
    IF tool_name = "cp_list_dataplanes" THEN
        LearnFrom(map, "dataplanes", DictGet(recorded_result, "dataplanes", <<>>),
                  DictGet(live_result, "dataplanes", <<>>), 1)
    ELSE IF tool_name = "cp_list_aggregated_schemas" THEN
        LearnFrom(map, "schemas", DictGet(recorded_result, "schemas", <<>>),
                  DictGet(live_result, "schemas", <<>>), 1)
    ELSE map

\* Variant of rewrite_args: no identifier is replaced.
rewrite_args_unmapped(map, tool_name, args) == [args |-> args, is_args |-> TRUE]

\* Variant of rewrite_args: without the early return on an empty map.
rewrite_args_no_shortcut(map, tool_name, args) ==
    IF tool_name \in {"cp_create_listener", "cp_update_listener"} THEN
        IF "dataplaneId" \in DOMAIN args /\ StrTruthy(args["dataplaneId"])
                /\ args["dataplaneId"] \in DOMAIN map
        THEN [args |-> DictSet(args, "dataplaneId", map[args["dataplaneId"]]),
              is_args |-> FALSE]
        ELSE [args |-> args, is_args |-> TRUE]
    ELSE IF tool_name = "cp_export_schema_openapi" /\ "schema_ids" \in DOMAIN args THEN
        [args |-> DictSet(args, "schema_ids",
                    [i \in 1..Len(args["schema_ids"]) |->
                        py_int(DictGet(map, py_str(args["schema_ids"][i]),
                                       py_str(args["schema_ids"][i])))]),
         is_args |-> FALSE]
    ELSE [args |-> args, is_args |-> TRUE]

\* IdRewriteMap.rewrite_args: [args |-> the dict returned,
\*                             is_args |-> it is the very object passed in]
rewrite_args(map, tool_name, args) ==
    IF DOMAIN map = {} THEN [args |-> args, is_args |-> TRUE]
    ELSE IF tool_name \in {"cp_create_listener", "cp_update_listener"} THEN
        IF "dataplaneId" \in DOMAIN args /\ StrTruthy(args["dataplaneId"])
                /\ args["dataplaneId"] \in DOMAIN map
        THEN [args |-> DictSet(args, "dataplaneId", map[args["dataplaneId"]]),
              is_args |-> FALSE]
        ELSE [args |-> args, is_args |-> TRUE]
    ELSE IF tool_name = "cp_export_schema_openapi" /\ "schema_ids" \in DOMAIN args THEN
        [args |-> DictSet(args, "schema_ids",
                    [i \in 1..Len(args["schema_ids"]) |->
                        py_int(DictGet(map, py_str(args["schema_ids"][i]),
                                       py_str(args["schema_ids"][i])))]),
         is_args |-> FALSE]
    ELSE [args |-> args, is_args |-> TRUE]

\* _replay_turn, lines 270-280: one tool call of the copied response
RewriteToolCall(map, tc) ==
    With(json_loads(tc.function.arguments), LAMBDA parsed :
    IF ~parsed.ok THEN tc
    ELSE With(rewrite_args(map, tc.function.name, parsed.value), LAMBDA rewritten :
         IF rewritten.is_args THEN tc
         ELSE [tc EXCEPT !.function.arguments = json_dumps(rewritten.args)]))

\* _replay_turn, lines 264-280: the deep copy of the recorded response with
\* the arguments of its tool calls rewritten
RewriteResponse(map, data) ==
    [id |-> data.id,
     choices |->
        [c \in 1..Len(data.choices) |->
            [message |->
                [content |-> data.choices[c].message.content,
                 tool_calls |->
                    [i \in 1..Len(data.choices[c].message.tool_calls) |->
                        RewriteToolCall(map,
                            data.choices[c].message.tool_calls[i])]]]]]

\* Variant of deepcopy: `data` names the recorded response itself.
deepcopy_alias(v) == [value |-> v, aliased |-> TRUE]

\* data = copy.deepcopy(v): the value of `data`, and whether a write to
\* `data` is a write to v
deepcopy(v) == [value |-> v, aliased |-> FALSE]

\* self._turns after _replay_turn wrote the rewritten arguments into `data`
TurnsAfterRewrite(turns, cursor, map) ==
    With(deepcopy(turns[cursor + 1]["response"]), LAMBDA data :
        IF data.aliased
        THEN [turns EXCEPT ![cursor + 1] =
                DictSet(@, "response", RewriteResponse(map, data.value))]
        ELSE turns)

\* Variant of _replay_turn: the cursor stays where it is.
_replay_turn_no_advance(turns, cursor, map) ==
    IF cursor >= Len(turns) THEN
        [out |-> Raised("IndexError", "Cassette exhausted"), _turn |-> cursor,
         _turns |-> turns]
    ELSE
        [out |-> Returned(deserialize_response(
                    RewriteResponse(map, turns[cursor + 1]["response"]))),
         _turn |-> cursor, _turns |-> TurnsAfterRewrite(turns, cursor, map)]

\* Variant of _replay_turn: past the end the last recorded response is
\* returned again.
_replay_turn_repeat_last(turns, cursor, map) ==
    IF turns = <<>> THEN
        [out |-> Raised("IndexError", "Cassette exhausted"), _turn |-> cursor,
         _turns |-> turns]
    ELSE IF cursor >= Len(turns) THEN
        [out |-> Returned(deserialize_response(
                    RewriteResponse(map, turns[Len(turns)]["response"]))),
         _turn |-> cursor,
         _turns |-> TurnsAfterRewrite(turns, Len(turns) - 1, map)]
    ELSE
        [out |-> Returned(deserialize_response(
                    RewriteResponse(map, turns[cursor + 1]["response"]))),
         _turn |-> cursor + 1, _turns |-> TurnsAfterRewrite(turns, cursor, map)]

\* CassetteOpenAIClient._replay_turn: [out |-> the response returned or the
\* exception raised, _turn |-> the cursor afterwards, _turns |-> the recorded
\* turns afterwards].  self._turns[self._turn] is turns[cursor + 1].
_replay_turn(turns, cursor, map) ==
    IF cursor >= Len(turns) THEN
        [out |-> Raised("IndexError", "Cassette exhausted"), _turn |-> cursor,
         _turns |-> turns]
    ELSE
        [out |-> Returned(deserialize_response(
                    RewriteResponse(map, turns[cursor + 1]["response"]))),
         _turn |-> cursor + 1, _turns |-> TurnsAfterRewrite(turns, cursor, map)]

\* _record_turn, lines 243-246: the names of the tools the response calls
ToolNamesOf(response) ==
    IF response.ChatCompletion.choices = <<>> THEN <<>>
    ELSE With(response.ChatCompletion.choices[1].message.tool_calls, LAMBDA tcs :
         [i \in 1..Len(tcs) |-> tcs[i].function.name])

\* CassetteOpenAIClient._record_turn, `response` being what the real client
\* answered: [out, _turns, _turn]
_record_turn(turns, cursor, response) ==
    [out |-> Returned(response),
     _turns |-> Append(turns, [turn |-> cursor,
                               response |-> serialize_response(response),
                               tool_names |-> ToolNamesOf(response)]),
     _turn |-> cursor + 1]

(***************************************************************************)
(* Inputs of the record/replay client: what a model answers, what a         *)
(* cassette on disk holds, and what the harness reports as tool results.    *)
(***************************************************************************)
TurnKinds == {"list", "listener", "export", "text"}

RecordedCall(n, i, name, arguments) ==
    [id |-> Str("call_" \o ToString(n) \o "_" \o ToString(i)),
     function |-> [name |-> name, arguments |-> JsonText(arguments)]]

\* The n-th response of a conversation: the two listing tools, a listener
\* creation on a listed dataplane beside a listener update on another one,
\* a schema export, or the final text
ResponseData(kind, n) ==
    [id |-> Str("chatcmpl-" \o ToString(n)),
     choices |-> <<[message |->
        CASE kind = "list" ->
                [content |-> None,
                 tool_calls |-> <<RecordedCall(n, 1, "cp_list_dataplanes", <<>>),
                                  RecordedCall(n, 2, "cp_list_aggregated_schemas", <<>>)>>]
          [] kind = "listener" ->
                [content |-> None,
                 tool_calls |-> <<RecordedCall(n, 1, "cp_create_listener",
                                    [name |-> Str("l"), dataplaneId |-> Str("dp-rec")]),
                                  RecordedCall(n, 2, "cp_update_listener",
                                    [name |-> Str("m"), dataplaneId |-> Str("dp-other")])>>]
          [] kind = "export" ->
                [content |-> None,
                 tool_calls |-> <<RecordedCall(n, 1, "cp_export_schema_openapi",
                                    [schema_ids |-> <<7>>])>>]
          [] kind = "text" ->
                [content |-> Str("Done."), tool_calls |-> <<>>]]>>]

\* What the listing tools answered when the cassette was recorded
RecordedResults ==
    [cp_list_dataplanes |->
        [dataplanes |-> <<[name |-> Str("dp"), id |-> Str("dp-rec")]>>],
     cp_list_aggregated_schemas |->
        [schemas |-> <<[http_method |-> Str("GET"), path |-> Str("/a"), id |-> 7]>>]]

\* The n-th turn of a cassette recorded by a harness run
RecordedTurn(kind, n) ==
    With(_record_turn(<<>>, n - 1, deserialize_response(ResponseData(kind, n)))._turns[1],
         LAMBDA t : IF kind = "list" THEN DictSet(t, "tool_results", RecordedResults)
                    ELSE t)

\* Variant of CassetteText: the turns are written newest first.
CassetteText_newest_first(turns) ==
    json_dumps([meta |-> [model |-> Str(""), prefix |-> Str("")],
                turns |-> [i \in 1..Len(turns) |-> turns[Len(turns) + 1 - i]]])

\* json.dumps(cassette, indent=2) of save()
CassetteText(turns) ==
    json_dumps([meta |-> [model |-> Str(""), prefix |-> Str("")], turns |-> turns])

\* The cassette files of up to MaxCassette turns
CassetteFiles ==
    {CassetteText([n \in DOMAIN kinds |-> RecordedTurn(kinds[n], n)]) :
        kinds \in UNION {[1..len -> TurnKinds] : len \in 0..MaxCassette}}

\* (tool_name, result) as the harness passes them to observe_tool_result: a
\* dataplane listing with a new id or with the recorded id, a schema listing
\* with a new id, the result of another tool, a result that is no dict.
\* The harness reports the results of the tools that the response returned
\* last by create() called (CalledByLastTurn).
Observations ==
    {<<"cp_list_dataplanes",
       [dataplanes |-> <<[name |-> Str("dp"), id |-> Str("dp-live")]>>]>>,
     <<"cp_list_dataplanes",
       [dataplanes |-> <<[name |-> Str("dp"), id |-> Str("dp-rec")]>>]>>,
     <<"cp_list_aggregated_schemas",
       [schemas |-> <<[http_method |-> Str("GET"), path |-> Str("/a"), id |-> 8]>>]>>,
     <<"cp_create_listener", [id |-> Str("l-1"), name |-> Str("l")]>>,
     <<"cp_list_dataplanes", Str("MCP error")>>}

CalledByLastTurn ==
    IF mode = "record"
    THEN IF _turns = <<>> THEN {}
         ELSE {Last(_turns)["tool_names"][i] : i \in 1..Len(Last(_turns)["tool_names"])}
    ELSE IF _turn = 0 THEN {}
         ELSE {_turns[_turn]["tool_names"][i] : i \in 1..Len(_turns[_turn]["tool_names"])}

\* isinstance(result, dict), for a value that is a dict, a str or None
IsDict(v) == v # None /\ ~IsStr(v)

(***************************************************************************)
(* The record/replay client as a state machine: one action per method.      *)
(***************************************************************************)
\* CassetteOpenAIClient.create
Create ==
    /\ IF mode = "record" /\ real_client = None THEN
          \* self.real_client.chat: None has no attribute `chat`
          /\ Len(replay_log) < MaxExtraCalls
          /\ replay_log' = Append(replay_log,
                Raised("AttributeError",
                       "'NoneType' object has no attribute 'chat'"))
          /\ UNCHANGED <<_turn, _turns, _id_map>>
       ELSE IF mode = "record" THEN
          /\ Len(_turns) < MaxCassette
          /\ \E kind \in TurnKinds :
             \E r \in {_record_turn(_turns, _turn,
                          deserialize_response(ResponseData(kind, Len(_turns) + 1)))} :
                /\ _turns' = r._turns
                /\ _turn' = r._turn
                /\ replay_log' = Append(replay_log, r.out)
                /\ UNCHANGED _id_map
       ELSE
          /\ Len(replay_log) < Len(_turns) + MaxExtraCalls
          /\ \E r \in {_replay_turn(_turns, _turn, _id_map)} :
                /\ _turn' = r._turn
                /\ _turns' = r._turns
                /\ replay_log' = Append(replay_log, r.out)
                /\ UNCHANGED _id_map
    /\ UNCHANGED <<mode, cassette, saved, real_client>>

\* Variant of ObserveToolResult: a recording client files the result under
\* the first turn, a replaying client compares with the turn that create()
\* will return next.
ObserveToolResult_other_turn(tool_name, result) ==
    /\ IF tool_name \notin _ID_SOURCE_TOOLS \/ ~IsDict(result) THEN
          UNCHANGED <<_turns, _id_map>>
       ELSE IF mode = "record" THEN
          /\ _turns' = IF _turns # <<>>
                       THEN [_turns EXCEPT ![1] =
                                DictSet(@, "tool_results",
                                    DictSet(DictGet(@, "tool_results", <<>>),
                                            tool_name, result))]
                       ELSE _turns
          /\ UNCHANGED _id_map
       ELSE
          /\ _id_map' =
                IF _turn < Len(_turns)
                THEN With(DictGet(DictGet(_turns[_turn + 1], "tool_results", <<>>),
                                  tool_name, None), LAMBDA recorded :
                     IF recorded # None /\ recorded # <<>>
                     THEN learn_from_results(_id_map, tool_name, recorded, result)
                     ELSE _id_map)
                ELSE _id_map
          /\ UNCHANGED _turns
    /\ UNCHANGED <<mode, _turn, cassette, replay_log, saved, real_client>>

\* CassetteOpenAIClient.observe_tool_result
ObserveToolResult(tool_name, result) ==
    /\ IF tool_name \notin _ID_SOURCE_TOOLS \/ ~IsDict(result) THEN
          UNCHANGED <<_turns, _id_map>>
       ELSE IF mode = "record" THEN
          /\ _turns' = IF _turns # <<>>
                       THEN [_turns EXCEPT ![Len(_turns)] =
                                DictSet(@, "tool_results",
                                    DictSet(DictGet(@, "tool_results", <<>>),
                                            tool_name, result))]
                       ELSE _turns
          /\ UNCHANGED _id_map
       ELSE
          /\ _id_map' =
                IF _turn > 0 /\ _turn - 1 < Len(_turns)
                THEN With(DictGet(DictGet(_turns[_turn], "tool_results", <<>>),
                                  tool_name, None), LAMBDA recorded :
                     IF recorded # None /\ recorded # <<>>
                     THEN learn_from_results(_id_map, tool_name, recorded, result)
                     ELSE _id_map)
                ELSE _id_map
          /\ UNCHANGED _turns
    /\ UNCHANGED <<mode, _turn, cassette, replay_log, saved, real_client>>

\* CassetteOpenAIClient.save
Save ==
    /\ cassette' = CassetteText(_turns)
    /\ saved' = IF mode = "record" THEN [returned |-> replay_log] ELSE saved
    /\ UNCHANGED <<mode, _turn, _turns, _id_map, replay_log, real_client>>

\* CassetteOpenAIClient.load; without a file, read_text raises and nothing
\* changes
Load ==
    /\ cassette # None
    /\ _turns' = DictGet(json_loads(cassette).value, "turns", <<>>)
    /\ _turn' = 0
    /\ replay_log' = <<>>
    /\ UNCHANGED <<mode, _id_map, cassette, saved, real_client>>

\* Variant of CassetteOpenAIClient: the arguments are not checked.
CassetteOpenAIClient_unchecked(new_mode, new_real_client) ==
    Returned([mode |-> new_mode, real_client |-> new_real_client,
              _turn |-> 0, _turns |-> <<>>, _id_map |-> <<>>])

\* CassetteOpenAIClient.__init__: the exception it raises, or the fields of
\* the client
CassetteOpenAIClient(new_mode, new_real_client) ==
    IF new_mode \notin {"record", "replay"} THEN
        Raised("ValueError", "Invalid mode: '" \o new_mode
                             \o "'; expected 'record' or 'replay'")
    ELSE IF new_mode = "record" /\ new_real_client = None THEN
        Raised("ValueError", "record mode requires a real_client")
    ELSE
        Returned([mode |-> new_mode, real_client |-> new_real_client,
                  _turn |-> 0, _turns |-> <<>>, _id_map |-> <<>>])

\* client = CassetteOpenAIClient(new_mode, cassette_path, new_real_client):
\* another client on the same cassette path.  When __init__ raises, nothing
\* is bound and the client there was, if any, stays.
Construct(new_mode, new_real_client) ==
    /\ \E c \in {CassetteOpenAIClient(new_mode, new_real_client)} :
          IF c.ok THEN
              /\ mode' = c.value.mode
              /\ real_client' = c.value.real_client
              /\ _turn' = c.value._turn
              /\ _turns' = c.value._turns
              /\ _id_map' = c.value._id_map
              /\ replay_log' = <<>>
          ELSE UNCHANGED <<mode, real_client, _turn, _turns, _id_map, replay_log>>
    /\ UNCHANGED <<cassette, saved>>

\* An agent that is not used while the client is exercised on its own
InitAgentIdle ==
    /\ tool_names = RegisteredTools
    /\ max_turns = 0
    /\ guardrails = None
    /\ mcp = Server({})
    /\ llm = <<>>
    /\ hook_calls = <<>>
    /\ pc = "idle"
    /\ messages = <<>>
    /\ turn = 0
    /\ message = None
    /\ tc_index = 0
    /\ memory = None
    /\ events = <<>>
    /\ llm_requests = <<>>
    /\ mcp_calls = <<>>
    /\ completed = <<>>

\* A CassetteOpenAIClient has been constructed, in record mode with a real
\* client and no cassette file yet, or in replay mode beside a cassette file
\* (or none).
InitReplay ==
    /\ InitAgentIdle
    /\ mode \in {"record", "replay"}
    /\ _turn = 0
    /\ _turns = <<>>
    /\ _id_map = <<>>
    /\ cassette \in (IF mode = "record" THEN {None} ELSE CassetteFiles \cup {None})
    /\ replay_log = <<>>
    /\ saved = None
    /\ real_client = (IF mode = "record" THEN RealClient ELSE None)
    /\ constructed = None
    /\ guard_log = <<>>
    /\ memory_log = <<>>
    /\ InitToolsIdle
    /\ InitHarnessIdle

NextReplay ==
    \/ (Create /\ UNCHANGED <<agentVars, guardVars, constructVars, toolVars, harnessVars>>)
    \/ (\E obs \in Observations :
            /\ obs[1] \in CalledByLastTurn
            /\ ObserveToolResult(obs[1], obs[2])
            /\ UNCHANGED <<agentVars, guardVars, constructVars, toolVars, harnessVars>>)
    \/ (Save /\ UNCHANGED <<agentVars, guardVars, constructVars, toolVars, harnessVars>>)
    \/ (Load /\ UNCHANGED <<agentVars, guardVars, constructVars, toolVars, harnessVars>>)

SpecReplay == InitReplay /\ [][NextReplay]_vars

(***************************************************************************)
(* learn_from_results on its own: a replay client has returned a turn that  *)
(* called both listing tools, and observe_tool_result is given live         *)
(* listings.  A listing holds up to MaxListing resources, in any order,     *)
(* with unique names and unique ids; the two recorded listings hold up to   *)
(* MaxListing resources together.                                           *)
(***************************************************************************)
\* The sequences of 0..MaxListing different elements of S
Arrangements(S) ==
    UNION {{q \in [1..n -> S] : \A i, j \in 1..n : q[i] = q[j] => i = j} :
              n \in 0..MaxListing}

DataplaneListings ==
    {[i \in DOMAIN names |-> [name |-> names[i], id |-> ids[i]]] :
        <<names, ids>> \in
            {p \in Arrangements({Str("a"), Str("b")})
                    \X Arrangements({Str("d1"), Str("d2"), Str("d3")}) :
                Len(p[1]) = Len(p[2])}}

SchemaListings ==
    {[i \in DOMAIN paths |->
            [http_method |-> Str("GET"), path |-> paths[i], id |-> ids[i]]] :
        <<paths, ids>> \in
            {p \in Arrangements({Str("/a"), Str("/b")}) \X Arrangements({7, 8}) :
                Len(p[1]) = Len(p[2])}}

\* (tool_name, result) as observe_tool_result is given them
LearnObservations ==
    {<<"cp_list_dataplanes", [dataplanes |-> l]>> : l \in DataplaneListings}
    \cup {<<"cp_list_aggregated_schemas", [schemas |-> l]>> : l \in SchemaListings}

InitLearn ==
    /\ InitAgentIdle
    /\ mode = "replay"
    /\ _turn = 1
    /\ \E rd \in DataplaneListings, rs \in SchemaListings :
          /\ Len(rd) + Len(rs) <= MaxListing
          /\ _turns = <<DictSet(RecordedTurn("text", 1), "tool_results",
                        [cp_list_dataplanes |-> [dataplanes |-> rd],
                         cp_list_aggregated_schemas |-> [schemas |-> rs]])>>
    /\ _id_map = <<>>
    /\ cassette = None
    /\ replay_log = <<>>
    /\ saved = None
    /\ real_client = (IF mode = "record" THEN RealClient ELSE None)
    /\ constructed = None
    /\ guard_log = <<>>
    /\ memory_log = <<>>
    /\ InitToolsIdle
    /\ InitHarnessIdle

NextLearn ==
    \E obs \in LearnObservations :
        ObserveToolResult(obs[1], obs[2]) /\ UNCHANGED <<agentVars, guardVars, constructVars, toolVars, harnessVars>>

SpecLearn == InitLearn /\ [][NextLearn]_vars

(***************************************************************************)
(* The round trip of the harness: a recording client records up to          *)
(* MaxRecorded turns and saves them; a replay client is then constructed on *)
(* the same cassette path, loads the file and replays it.                   *)
(***************************************************************************)
InitRoundTrip ==
    /\ InitAgentIdle
    /\ mode = "record"
    /\ _turn = 0
    /\ _turns = <<>>
    /\ _id_map = <<>>
    /\ cassette = None
    /\ replay_log = <<>>
    /\ saved = None
    /\ real_client = (IF mode = "record" THEN RealClient ELSE None)
    /\ constructed = None
    /\ guard_log = <<>>
    /\ memory_log = <<>>
    /\ InitToolsIdle
    /\ InitHarnessIdle

NextRoundTrip ==
    \/ ((mode = "record" => Len(_turns) < MaxRecorded)
            /\ Create /\ UNCHANGED <<agentVars, guardVars, constructVars, toolVars, harnessVars>>)
    \/ (\E obs \in Observations :
            /\ obs[1] \in CalledByLastTurn
            /\ ObserveToolResult(obs[1], obs[2])
            /\ UNCHANGED <<agentVars, guardVars, constructVars, toolVars, harnessVars>>)
    \/ (mode = "record" /\ Save /\ UNCHANGED <<agentVars, guardVars, constructVars, toolVars, harnessVars>>)
    \/ (Construct("replay", None) /\ UNCHANGED <<agentVars, guardVars, constructVars, toolVars, harnessVars>>)
    \/ (mode = "replay" /\ Load /\ UNCHANGED <<agentVars, guardVars, constructVars, toolVars, harnessVars>>)

SpecRoundTrip == InitRoundTrip /\ [][NextRoundTrip]_vars

(***************************************************************************)
(* Construction: CassetteOpenAIClient is called with valid and invalid      *)
(* arguments, and the client it yields, if any, is used.                    *)
(***************************************************************************)
\* The `mode` arguments tried
ConstructModes == {"record", "replay", "live", ""}

\* A client has been constructed
ClientExists == mode # ""

\* One more call on the client since it was constructed
Used ==
    /\ constructed # None
    /\ constructed.uses < MaxUses
    /\ constructed' = [constructed EXCEPT !.uses = @ + 1]

\* The calls of CassetteOpenAIClient(...) so far
Builds == IF constructed = None THEN 0 ELSE constructed.built

\* CassetteOpenAIClient(new_mode, path, new_real_client), and what it did
Constructing(new_mode, new_real_client) ==
    /\ Builds < MaxBuilds
    /\ Construct(new_mode, new_real_client)
    /\ constructed' =
          [mode |-> new_mode, real_client |-> new_real_client,
           out |-> With(CassetteOpenAIClient(new_mode, new_real_client), LAMBDA c :
                       IF c.ok THEN Returned(None) ELSE c),
           uses |-> 0, built |-> Builds + 1]

\* The file at the cassette path, if any: a listing turn and a closing text
ConstructCassettes ==
    {None, CassetteText(<<RecordedTurn("list", 1), RecordedTurn("text", 2)>>)}

\* No client yet
InitConstruct ==
    /\ InitAgentIdle
    /\ mode = ""
    /\ _turn = 0
    /\ _turns = <<>>
    /\ _id_map = <<>>
    /\ cassette \in ConstructCassettes
    /\ replay_log = <<>>
    /\ saved = None
    /\ real_client = None
    /\ constructed = None
    /\ guard_log = <<>>
    /\ memory_log = <<>>
    /\ InitToolsIdle
    /\ InitHarnessIdle

NextConstruct ==
    \/ (\E m \in ConstructModes, rc \in {None, RealClient} :
            Constructing(m, rc) /\ UNCHANGED <<agentVars, guardVars, toolVars, harnessVars>>)
    \/ (ClientExists /\ Used /\ Create /\ UNCHANGED <<agentVars, guardVars, toolVars, harnessVars>>)
    \/ (\E obs \in Observations :
            /\ ClientExists /\ Used
            /\ obs[1] \in CalledByLastTurn
            /\ ObserveToolResult(obs[1], obs[2])
            /\ UNCHANGED <<agentVars, guardVars, toolVars, harnessVars>>)
    \/ (ClientExists /\ Used /\ Save /\ UNCHANGED <<agentVars, guardVars, toolVars, harnessVars>>)
    \/ (ClientExists /\ Used /\ Load /\ UNCHANGED <<agentVars, guardVars, toolVars, harnessVars>>)

SpecConstruct == InitConstruct /\ [][NextConstruct]_vars

(***************************************************************************)
(* mcp_to_openai_tools (agent.py).  `allowed` is None or a set of names,    *)
(* written [names |-> S].                                                   *)
(***************************************************************************)
\* The set S as a value of `allowed`
NameSet(S) == [names |-> S]

\* Python truthiness of `allowed`: None and set() are falsy
SetTruthy(a) == a # None /\ a.names # {}

\* Variant of Skipped: an empty set is a filter like any other.
Skipped_empty_filters(a, tool) == a # None /\ tool["name"] \notin a.names

\* `allowed and tool["name"] not in allowed`
Skipped(a, tool) == SetTruthy(a) /\ tool["name"] \notin a.names

\* The dict appended for one tool
FunctionDescriptor(tool) ==
    [type |-> Str("function"),
     function |->
        [name |-> tool["name"],
         description |-> DictGet(tool, "description", Str("")),
         parameters |-> DictGet(tool, "inputSchema",
                                [type |-> Str("object"), properties |-> <<>>])]]

\* The loop of mcp_to_openai_tools from the i-th tool on, `result` so far
RECURSIVE ConvertFrom(_, _, _, _)
ConvertFrom(tools, a, i, result) ==
    IF i > Len(tools) THEN result
    ELSE IF Skipped(a, tools[i]) THEN ConvertFrom(tools, a, i + 1, result)
    ELSE ConvertFrom(tools, a, i + 1, Append(result, FunctionDescriptor(tools[i])))

mcp_to_openai_tools(tools, a) == ConvertFrom(tools, a, 1, <<>>)

\* The tool definitions of a catalog: two names, each with or without a
\* description and an inputSchema
ToolDefinitions ==
    {[k \in {"name"} \cup extra |->
        IF k = "name" THEN n
        ELSE IF k = "description" THEN Str("does " \o n)
        ELSE [type |-> Str("object"),
              properties |-> [team |-> [type |-> Str("string")]]]] :
        n \in {"tool_a", "tool_b"}, extra \in SUBSET {"description", "inputSchema"}}

\* The catalogs of up to MaxCatalog tools
Catalogs == UNION {[1..len -> ToolDefinitions] : len \in 0..MaxCatalog}

\* The `allowed` arguments: the default, set(), and sets with names of the
\* catalog and a name outside it
AllowedChoices ==
    {None} \cup {NameSet(S) : S \in SUBSET {"tool_a", "tool_b"}}
           \cup {NameSet({"tool_b", "tool_z"}), NameSet({"tool_z"})}

\* result = mcp_to_openai_tools(mcp_tools, allowed=a): the function reads
\* its arguments and builds a new list
ConvertTools(a) ==
    /\ allowed' = a
    /\ openai_tools' = Returned(mcp_to_openai_tools(mcp_tools, a))
    /\ UNCHANGED mcp_tools

InitTools ==
    /\ InitAgentIdle
    /\ InitReplayIdle
    /\ guard_log = <<>>
    /\ memory_log = <<>>
    /\ mcp_tools \in Catalogs
    /\ allowed = None
    /\ openai_tools = None
    /\ InitHarnessIdle

NextTools ==
    \E a \in AllowedChoices :
        /\ ConvertTools(a)
        /\ UNCHANGED <<agentVars, replayVars, guardVars, constructVars, harnessVars>>

SpecTools == InitTools /\ [][NextTools]_vars

(***************************************************************************)
(* run_agent_scenario (testing/harness.py): the calling thread submits _run *)
(* to a pool of one thread and waits for it with a deadline.  The two       *)
(* threads share the locals tool_calls, answer, turn and error_msg.         *)
(* agent.run_stream(prompt) is what it yields and how it ends:              *)
(*   [events |-> the events yet to come,                                    *)
(*    ending |-> "return", "raise", or "hang" when a model or tool call     *)
(*               of the loop never comes back].                             *)
(* The wall-clock fields elapsed_ms and elapsed_s are left out.             *)
(***************************************************************************)
\* f"Timed out after {timeout_s}s" for the default timeout_s = 180.0
TimeoutMessage == Str("Timed out after 180.0s")

\* str(exc) of the exception that run_stream raises
StreamError == Str("LLM failure")

ToolCallEvent(name, args) == [type |-> "tool_call", name |-> name, args |-> args]
ToolResultEvent(name, result) == [type |-> "tool_result", name |-> name, result |-> result]

\* What a run_stream call yields: an answer alone, one or two invocations
\* with or without an answer after them, a result without its invocation
EventScripts ==
    {<<>>,
     <<Event("answer", Str("All done."))>>,
     <<ToolCallEvent("cp_list_dataplanes", <<>>),
       ToolResultEvent("cp_list_dataplanes", [dataplanes |-> <<>>]),
       Event("answer", Str("All done."))>>,
     <<Event("thinking", Str("Let me check.")),
       ToolCallEvent("cp_list_dataplanes", <<>>),
       ToolResultEvent("cp_list_dataplanes", [dataplanes |-> <<>>]),
       ToolCallEvent("cp_create_cluster", [name |-> Str("a")]),
       ToolResultEvent("cp_create_cluster", Str("MCP error")),
       Event("answer", MaxTurnsReached)>>,
     <<ToolResultEvent("cp_create_cluster", [id |-> Str("c-1")])>>}

Endings == {"return", "raise", "hang"}

\* ToolCallRecord(...)
ToolCallRecord(name, args, result, turn_no) ==
    [name |-> name, args |-> args, result |-> result, turn |-> turn_no]

\* ConversationTrace(...), lines 123-131
ConversationTrace ==
    [prompt |-> user_message, answer |-> answer, tool_calls |-> tool_calls,
     turn_count |-> turn_count, timed_out |-> timed_out, error |-> error_msg]

\* _run, lines 89-109: one event of agent.run_stream(prompt)
WorkerEvent ==
    /\ worker.pc = "running"
    /\ stream.events # <<>>
    /\ stream' = [stream EXCEPT !.events = Tail(@)]
    /\ LET event == Head(stream.events)
       IN  CASE event.type = "tool_call" ->
                  /\ worker' = [worker EXCEPT !.pending_call = event]
                  /\ turn_count' = turn_count + 1
                  /\ UNCHANGED <<tool_calls, answer, replayVars>>
             [] event.type = "tool_result" ->
                  /\ tool_calls' = Append(tool_calls,
                        ToolCallRecord(event.name,
                            IF worker.pending_call # None
                            THEN worker.pending_call.args ELSE <<>>,
                            event.result, turn_count))
                  /\ worker' = [worker EXCEPT !.pending_call = None]
                  /\ IF ClientExists
                     THEN ObserveToolResult(event.name, event.result)
                     ELSE UNCHANGED replayVars
                  /\ UNCHANGED <<turn_count, answer>>
             [] event.type = "answer" ->
                  /\ answer' = event.content
                  /\ UNCHANGED <<worker, tool_calls, turn_count, replayVars>>
             [] OTHER ->
                  UNCHANGED <<worker, tool_calls, turn_count, answer, replayVars>>
    /\ UNCHANGED <<waiter, timed_out, error_msg, trace>>

\* _run: run_stream is exhausted and the loop ends
WorkerReturns ==
    /\ worker.pc = "running"
    /\ stream.events = <<>> /\ stream.ending = "return"
    /\ worker' = [worker EXCEPT !.pc = "done"]
    /\ UNCHANGED <<stream, waiter, tool_calls, answer, turn_count, timed_out,
                   error_msg, trace, replayVars>>

\* _run, lines 110-111: run_stream raises
WorkerRaises ==
    /\ worker.pc = "running"
    /\ stream.events = <<>> /\ stream.ending = "raise"
    /\ error_msg' = StreamError
    /\ worker' = [worker EXCEPT !.pc = "done"]
    /\ UNCHANGED <<stream, waiter, tool_calls, answer, turn_count, timed_out,
                   trace, replayVars>>

\* line 117: future.result returns, _run having finished
ResultReturns ==
    /\ waiter = "result"
    /\ worker.pc = "done"
    /\ waiter' = "exit"
    /\ UNCHANGED <<stream, worker, tool_calls, answer, turn_count, timed_out,
                   error_msg, trace, replayVars>>

\* lines 117-119: the deadline passes before _run has finished
ResultTimesOut ==
    /\ waiter = "result"
    /\ worker.pc # "done"
    /\ timed_out' = TRUE
    /\ waiter' = "line_120"
    /\ UNCHANGED <<stream, worker, tool_calls, answer, turn_count, error_msg,
                   trace, replayVars>>

\* line 120
SetTimeoutMessage ==
    /\ waiter = "line_120"
    /\ error_msg' = TimeoutMessage
    /\ waiter' = "exit"
    /\ UNCHANGED <<stream, worker, tool_calls, answer, turn_count, timed_out,
                   trace, replayVars>>

\* lines 114-131: the end of the `with ThreadPoolExecutor(...)` block, which
\* is pool.shutdown(wait=True) and joins the pool's thread, then the return
ExitAndReturn ==
    /\ waiter = "exit"
    /\ worker.pc = "done"
    /\ trace' = ConversationTrace
    /\ waiter' = "returned"
    /\ UNCHANGED <<stream, worker, tool_calls, answer, turn_count, timed_out,
                   error_msg, replayVars>>

\* lines 78-117: run_agent_scenario has submitted _run and waits for it; the
\* agent's llm is a plain client
InitHarness ==
    /\ InitAgentIdle
    /\ mode = ""
    /\ _turn = 0
    /\ _turns = <<>>
    /\ _id_map = <<>>
    /\ cassette = None
    /\ replay_log = <<>>
    /\ saved = None
    /\ real_client = None
    /\ constructed = None
    /\ guard_log = <<>>
    /\ memory_log = <<>>
    /\ InitToolsIdle
    /\ stream \in [events : EventScripts, ending : Endings]
    /\ worker = [pc |-> "running", pending_call |-> None]
    /\ waiter = "result"
    /\ tool_calls = <<>>
    /\ answer = Str("")
    /\ turn_count = 0
    /\ timed_out = FALSE
    /\ error_msg = None
    /\ trace = None

\* The steps of the calling thread
WaiterStep ==
    \/ (ResultReturns /\ UNCHANGED <<agentVars, guardVars, constructVars, toolVars>>)
    \/ (ResultTimesOut /\ UNCHANGED <<agentVars, guardVars, constructVars, toolVars>>)
    \/ (SetTimeoutMessage /\ UNCHANGED <<agentVars, guardVars, constructVars, toolVars>>)
    \/ (ExitAndReturn /\ UNCHANGED <<agentVars, guardVars, constructVars, toolVars>>)

NextHarness ==
    \/ (WorkerEvent /\ UNCHANGED <<agentVars, guardVars, constructVars, toolVars>>)
    \/ (WorkerReturns /\ UNCHANGED <<agentVars, guardVars, constructVars, toolVars>>)
    \/ (WorkerRaises /\ UNCHANGED <<agentVars, guardVars, constructVars, toolVars>>)
    \/ (ResultReturns /\ UNCHANGED <<agentVars, guardVars, constructVars, toolVars>>)
    \/ (ResultTimesOut /\ UNCHANGED <<agentVars, guardVars, constructVars, toolVars>>)
    \/ (SetTimeoutMessage /\ UNCHANGED <<agentVars, guardVars, constructVars, toolVars>>)
    \/ (ExitAndReturn /\ UNCHANGED <<agentVars, guardVars, constructVars, toolVars>>)

SpecHarness == InitHarness /\ [][NextHarness]_vars

\* The calling thread goes on whenever it can; nothing makes the loop that
\* the pool's thread runs come to an end.
SpecHarnessLive == SpecHarness /\ WF_vars(WaiterStep)

(***************************************************************************)
(* What the properties of the agent loop observe.                           *)
(***************************************************************************)
Running == pc # "idle"

InTools == pc \in {"run_tools", "stream_tools"}

\* The invocation the tool loop is about to execute
CurrentCall == message.tool_calls[tc_index]

\* The model responses consumed so far by the call in progress, and how many
\* invocations of the last of them have been executed
Consumed == IF InTools THEN turn + 1 ELSE turn
Executed(k) ==
    IF InTools /\ k = turn + 1 THEN tc_index - 1 ELSE Len(llm[k].tool_calls)

\* The messages the call started with: the system turn and the user turn, or
\* the system turn and the window of the memory
HeadLen == IF memory = None THEN 2 ELSE 1 + Len(memory._messages)

\* A conversation reduced to who speaks: assistant turns, and tool-result
\* turns with the call id they carry
Shape(msgs) ==
    [i \in 1..Len(msgs) |->
        IF msgs[i].role = "tool"
        THEN [role |-> "tool", tool_call_id |-> msgs[i].tool_call_id]
        ELSE [role |-> msgs[i].role]]

\* The turns that responses k..n of the model add to a conversation when
\* `done` invocations of response n and all invocations of the responses
\* before it have been executed, in the order the model emitted them
RECURSIVE Conversation(_, _, _)
Conversation(k, n, done) ==
    IF k > n THEN <<>>
    ELSE <<[role |-> "assistant"]>>
         \o [i \in 1..(IF k = n THEN done ELSE Len(llm[k].tool_calls)) |->
                [role |-> "tool", tool_call_id |-> llm[k].tool_calls[i].id]]
         \o Conversation(k + 1, n, done)

\* Conversation after all invocations of responses 1..n
FullConversation(n) ==
    Conversation(1, n, IF n = 0 THEN 0 ELSE Len(llm[n].tool_calls))

AfterHead(msgs, head) == SubSeq(msgs, head + 1, Len(msgs))

\* The call ids of the invocations that reached the tool boundary, in the
\* order of the boundary calls
BoundaryIds(calls) ==
    LET main == SelectSeq(calls, LAMBDA c : c.site = "_execute_tool")
    IN  [i \in 1..Len(main) |-> main[i].tool_call_id]

\* The position of a tool-result turn with call id `id` in msgs, 0 if none
PositionOf(id, msgs) ==
    IF \E i \in 1..Len(msgs) : msgs[i].role = "tool" /\ msgs[i].tool_call_id = id
    THEN CHOOSE i \in 1..Len(msgs) : msgs[i].role = "tool" /\ msgs[i].tool_call_id = id
    ELSE 0

\* message.content or ""
TextOf(response) ==
    IF response.content \notin {None, Str("")} THEN response.content ELSE Str("")

IsErrorObject(content) ==
    "json" \in DOMAIN content /\ DOMAIN content.json = {"error"}

\* The answer events of an event sequence
AnswersOf(evs) == SelectSeq(evs, LAMBDA e : e.type = "answer")

\* C1: within a call of run or run_stream the invocations of the model's
\* responses are executed one at a time in the order the model emitted them:
\* at every moment the conversation after its head is, response by response,
\* the assistant turn followed by one tool-result turn per executed
\* invocation, carrying that invocation's call id, in emitted order; every
\* model call was issued with the tool-result turns of all earlier
\* invocations; and an invocation reaches the tool boundary at most once, the
\* boundary calls following the order of the tool-result turns.
C1_OrderedOnceWithId ==
    Running =>
        /\ Shape(AfterHead(messages, HeadLen))
              = Conversation(1, Consumed, IF Consumed = 0 THEN 0 ELSE Executed(Consumed))
        /\ \A k \in 1..Len(llm_requests) :
              Shape(AfterHead(llm_requests[k], HeadLen)) = FullConversation(k - 1)
        /\ LET ids == BoundaryIds(mcp_calls)
           IN  /\ \A i \in 1..Len(ids) : PositionOf(ids[i], messages) > 0
               /\ \A i, j \in 1..Len(ids) :
                     i < j => PositionOf(ids[i], messages) < PositionOf(ids[j], messages)

\* C1 witness: a response with two invocations has been executed, both
\* reached the tool boundary, and the next model call has been issued.
C1_Witness ==
    /\ Running
    /\ Len(llm_requests) = 2
    /\ Len(llm[1].tool_calls) = 2
    /\ Len(BoundaryIds(mcp_calls)) = 2

\* A step of a call in progress brings its end nearer: it starts the tool
\* loop of the current turn, moves to the next invocation of the current
\* response, or moves to the next turn
Advances ==
    \/ turn' = turn + 1
    \/ turn' = turn /\ ~InTools /\ pc' \in {"run_tools", "stream_tools"}
    \/ turn' = turn /\ InTools /\ pc' = pc /\ message' = message
            /\ tc_index' = tc_index + 1 /\ tc_index' <= Len(message.tool_calls)

\* C2: a call of run or run_stream issues at most max_turns model calls, no
\* (max_turns+1)-th is ever issued, and the call ends: the turn counter never
\* passes max_turns and every step of the call either ends it or advances
\* within the turn or to the next turn.
C2_BoundedModelCalls ==
    /\ [](/\ Len(llm_requests) <= max_turns
          /\ turn <= max_turns
          /\ \A i \in 1..Len(completed) :
                Len(completed[i].llm_requests) <= max_turns)
    /\ [][Running => (~Running' \/ Advances)]_vars

\* C2 witness: a call that used its whole budget of MaxTurns model calls, each
\* answered with tool invocations, has ended.
C2_Witness ==
    /\ max_turns = MaxTurns
    /\ Len(completed) = 2
    /\ \A i \in 1..2 : Len(completed[i].llm_requests) = MaxTurns
    /\ Len(llm) = MaxTurns
    /\ \A k \in 1..MaxTurns : llm[k].tool_calls # <<>>

\* The invocation about to be executed is one that the pre-hook reject_delete
\* declines
RejectedByPreHook ==
    /\ InTools
    /\ guardrails # None
    /\ CurrentCall.function.name \in tool_names
    /\ CurrentCall.function.name = "cp_delete_cluster"
    /\ \E i \in 1..Len(guardrails._pre_hooks) : guardrails._pre_hooks[i] = "reject_delete"

\* The invocation about to be executed reaches the tool boundary, which raises
BoundaryRaises ==
    /\ InTools
    /\ CurrentCall.function.name \in tool_names
    /\ ~RejectedByPreHook
    /\ mcp[CurrentCall.function.name].raises

\* The tool loop moves on from the current invocation: to the next invocation
\* of the same response or, after the last one, to the next model call
LoopGoesOn ==
    /\ completed' = completed
    /\ IF tc_index < Len(message.tool_calls)
       THEN tc_index' = tc_index + 1 /\ pc' = pc /\ turn' = turn /\ message' = message
       ELSE turn' = turn + 1
            /\ pc' = (IF pc = "run_tools" THEN "run_model" ELSE "stream_model")

\* C3: an invocation that a custom pre-hook rejects, or whose tool-boundary
\* call raises, does not raise out of run / run_stream: the step appends a
\* tool-result turn with the invocation's id whose content is a JSON object
\* with an 'error' field and the loop goes on with the next invocation or the
\* next model call; no call of run / run_stream ends by raising.
C3_ErrorsBecomeToolResults ==
    /\ [](\A i \in 1..Len(completed) : completed[i].out.ok)
    /\ [][(RejectedByPreHook \/ BoundaryRaises) =>
            /\ messages' = Append(messages, Last(messages'))
            /\ Last(messages').role = "tool"
            /\ Last(messages').tool_call_id = CurrentCall.id
            /\ IsErrorObject(Last(messages').content)
            /\ LoopGoesOn]_vars

\* C3 witness: one response held a rejected invocation and then an invocation
\* whose boundary call raised; both have an error turn and the next model
\* call has been issued.
C3_Witness ==
    /\ Running
    /\ Len(llm_requests) = 2
    /\ \E i \in 1..Len(messages) :
          /\ messages[i].role = "tool"
          /\ messages[i].content
                = [json |-> [error |-> Str("Pre-hook rejected call to cp_delete_cluster")]]
    /\ \E i \in 1..Len(messages) :
          /\ messages[i].role = "tool"
          /\ messages[i].content
                = [json |-> [error |-> Str("MCP error: cp_create_cluster")]]

\* C4: an invocation whose name is not in tool_names yields the 'Unknown
\* tool' error result and nothing else happens: the guardrails (preflight
\* flag, manifest) are unchanged, no pre-hook or post-hook is called and no
\* call reaches the tool boundary.
C4_UnknownToolTouchesNothing ==
    [][(InTools /\ CurrentCall.function.name \notin tool_names) =>
            /\ guardrails' = guardrails
            /\ hook_calls' = hook_calls
            /\ mcp_calls' = mcp_calls
            /\ messages' = Append(messages,
                  [role |-> "tool", tool_call_id |-> CurrentCall.id,
                   content |-> [json |-> [error |->
                        Str("Unknown tool: " \o CurrentCall.function.name)]]])
            /\ LoopGoesOn]_vars

\* C4 witness: an agent with auto-preflight and hooks has answered an unknown
\* creation tool as the first invocation of a run.
C4_Witness ==
    /\ Running
    /\ guardrails # None /\ guardrails._auto_preflight /\ ~guardrails._preflight_done
    /\ Len(messages) = HeadLen + 2
    /\ Last(messages).role = "tool"
    /\ Last(messages).content
          = [json |-> [error |-> Str("Unknown tool: cp_create_listener")]]
    /\ mcp_calls = <<>> /\ hook_calls = <<>>

\* C5: for the same model behaviour and the same tool results, run and
\* run_stream without memory issue the same model calls and the same
\* tool-boundary calls and end with the same final answer, whether the answer
\* is the model's text or the turn budget ran out.
C5_SameCallsSameAnswer ==
    (Len(completed) = 2 /\ completed[2].memory = None) =>
        /\ completed[1].llm_requests = completed[2].llm_requests
        /\ completed[1].mcp_calls = completed[2].mcp_calls
        /\ completed[2].out.ok
        /\ Len(AnswersOf(completed[2].events)) = 1
        /\ completed[1].out = Returned(AnswersOf(completed[2].events)[1].content)

\* C6: when the model answers every one of the max_turns model calls with
\* tool invocations, run_stream ends without raising and its only answer
\* event, the last event, carries the fixed sentinel.
C6_StreamSentinel ==
    \A i \in 1..Len(completed) :
        (/\ completed[i].fn = "run_stream"
         /\ Len(llm) = max_turns
         /\ \A k \in 1..max_turns : llm[k].tool_calls # <<>>) =>
            /\ completed[i].out = Returned(None)
            /\ AnswersOf(completed[i].events)
                  = <<[type |-> "answer",
                       content |-> Str("Max turns reached without final answer.")]>>
            /\ Last(completed[i].events).type = "answer"

\* C6 witness: a run_stream call on a budget of MaxTurns whose last round-trip
\* executed two invocations has ended.
C6_Witness ==
    /\ max_turns = MaxTurns
    /\ Len(completed) = 2
    /\ Len(llm) = MaxTurns
    /\ \A k \in 1..MaxTurns : llm[k].tool_calls # <<>>
    /\ Len(llm[MaxTurns].tool_calls) = 2
    /\ Len(completed[2].llm_requests) = MaxTurns

\* The last n elements of s
LastN(s, n) == SubSeq(s, (IF n < Len(s) THEN Len(s) - n ELSE 0) + 1, Len(s))

\* The number of invocations of the first n responses
RECURSIVE Invocations(_)
Invocations(n) == IF n = 0 THEN 0 ELSE Len(llm[n].tool_calls) + Invocations(n - 1)

\* C7: if the first k responses of the model carry tool invocations
\* (k < max_turns) and response k+1 is text, the call makes exactly k+1 model
\* calls, its conversation holds exactly one tool-result turn per invocation,
\* in order, the final answer is that text, and run_stream with a memory
\* leaves in the memory the user turn and then the assistant turn with the
\* answer, cut to the memory's window.
C7_TextEndsTheLoop ==
    \A i \in 1..Len(completed) :
        \A k \in 0..(max_turns - 1) :
            (/\ Len(llm) >= k + 1
             /\ \A j \in 1..k : llm[j].tool_calls # <<>>
             /\ llm[k + 1].tool_calls = <<>>) =>
                LET e == completed[i]
                    final_turn == [role |-> "assistant", content |-> TextOf(llm[k + 1])]
                    head == Len(e.messages) - (k + Invocations(k))
                IN  /\ Len(e.llm_requests) = k + 1
                    /\ Len(SelectSeq(e.messages, LAMBDA m : m.role = "tool"))
                          = Invocations(k)
                    /\ head >= 1
                    /\ Shape(AfterHead(e.messages, head)) = FullConversation(k)
                    /\ e.fn = "run" => e.out = Returned(final_turn.content)
                    /\ e.fn = "run_stream" =>
                          /\ e.out = Returned(None)
                          /\ Last(e.events) = [type |-> "answer", content |-> final_turn.content]
                          /\ e.memory # None =>
                                e.memory._messages
                                  = LastN(<<[role |-> "user", content |-> user_message],
                                            final_turn>>, e.memory.max_history)

\* C7 witness: one tool call, then text, in run_stream with a memory that
\* keeps both turns: 2 model calls and 1 tool-result turn.
C7_Witness ==
    /\ Len(completed) = 2
    /\ completed[2].memory # None
    /\ completed[2].memory.max_history = MaxHistory
    /\ Len(completed[2].memory._messages) = 2
    /\ Len(llm) = 2
    /\ Len(llm[1].tool_calls) = 1
    /\ llm[2].content = Str("All done.")
    /\ Len(completed[2].llm_requests) = 2
    /\ Len(SelectSeq(completed[2].messages, LAMBDA m : m.role = "tool")) = 1

\* An event reduced to its type and what identifies it
EventShape(e) ==
    CASE e.type = "thinking" -> [type |-> "thinking", content |-> e.content]
      [] e.type \in {"tool_call", "tool_result"} -> [type |-> e.type, name |-> e.name]
      [] OTHER -> [type |-> e.type]

\* The events of the tool invocations i..n of a response
RECURSIVE CallEvents(_, _, _)
CallEvents(response, i, n) ==
    IF i > n THEN <<>>
    ELSE <<[type |-> "tool_call", name |-> response.tool_calls[i].function.name],
           [type |-> "tool_result", name |-> response.tool_calls[i].function.name]>>
         \o CallEvents(response, i + 1, n)

\* The events of responses k..n, `done` invocations of response n and all
\* invocations of the responses before it having been executed
RECURSIVE ExpectedEvents(_, _, _)
ExpectedEvents(k, n, done) ==
    IF k > n THEN <<>>
    ELSE (IF llm[k].content \notin {None, Str("")}
          THEN <<[type |-> "thinking", content |-> llm[k].content]>> ELSE <<>>)
         \o CallEvents(llm[k], 1, IF k = n THEN done ELSE Len(llm[k].tool_calls))
         \o ExpectedEvents(k + 1, n, done)

\* The number of leading responses of the model's behaviour that carry tool
\* invocations, among the first n
RECURSIVE ToolResponses(_, _)
ToolResponses(k, n) ==
    IF k > n \/ k > Len(llm) \/ llm[k].tool_calls = <<>> THEN 0
    ELSE 1 + ToolResponses(k + 1, n)

\* C8: run_stream emits, for each response that carries invocations, a
\* thinking event exactly when the response has text, then for each
\* invocation in emitted order a tool_call event immediately followed by the
\* tool_result event of the same invocation; a finished call has emitted
\* exactly one answer event, as its last event, and no answer event is
\* emitted before the end.
C8_EventOrder ==
    /\ pc \in {"stream_model", "stream_tools"} =>
          [i \in 1..Len(events) |-> EventShape(events[i])]
            = ExpectedEvents(1, Consumed, IF Consumed = 0 THEN 0 ELSE Executed(Consumed))
    /\ \A i \in 1..Len(completed) :
          completed[i].fn = "run_stream" =>
              LET evs == completed[i].events
                  n == ToolResponses(1, max_turns)
              IN  [j \in 1..Len(evs) |-> EventShape(evs[j])]
                    = ExpectedEvents(1, n, IF n = 0 THEN 0 ELSE Len(llm[n].tool_calls))
                      \o <<[type |-> "answer"]>>

\* C8 witness: a finished run_stream call that emitted a thinking event, the
\* events of two invocations, and its answer.
C8_Witness ==
    /\ Len(completed) = 2
    /\ Len(completed[2].events) = 6
    /\ completed[2].events[1].type = "thinking"
    /\ completed[2].events[6].type = "answer"

(***************************************************************************)
(* What the properties of the record/replay client observe.                 *)
(***************************************************************************)
\* The arguments of a returned tool call are those of the recorded one: the
\* same text, or the same JSON object up to the identifier fields
SameArguments(returned, recorded) ==
    \/ returned = recorded
    \/ /\ json_loads(returned).ok /\ json_loads(recorded).ok
       /\ DOMAIN returned.json = DOMAIN recorded.json
       /\ \A key \in DOMAIN recorded.json \ {"dataplaneId", "schema_ids"} :
             returned.json[key] = recorded.json[key]

\* The ChatCompletion returned is the recorded response: the same response
\* id, the same text, the same tool calls (ids and names) in the same order
SameTurn(returned, recorded) ==
    /\ DOMAIN returned = {"ChatCompletion"}
    /\ returned.ChatCompletion.id = recorded.id
    /\ Len(returned.ChatCompletion.choices) = Len(recorded.choices)
    /\ \A c \in 1..Len(recorded.choices) :
          LET got == returned.ChatCompletion.choices[c].message
              rec == recorded.choices[c].message
          IN  /\ got.content = rec.content
              /\ Len(got.tool_calls) = Len(rec.tool_calls)
              /\ \A i \in 1..Len(rec.tool_calls) :
                    /\ got.tool_calls[i].id = rec.tool_calls[i].id
                    /\ got.tool_calls[i].function.name
                          = rec.tool_calls[i].function.name
                    /\ SameArguments(got.tool_calls[i].function.arguments,
                                     rec.tool_calls[i].function.arguments)

\* C9: in replay mode the k-th create() call since load() returns the response
\* of the k-th recorded turn, for k = 1..n: no turn is skipped, repeated or
\* reordered, and the cursor counts the turns returned.
C9_ReplayInRecordedOrder ==
    mode = "replay" =>
        /\ \A k \in 1..Len(replay_log) :
              k <= Len(_turns) =>
                  /\ replay_log[k].ok
                  /\ SameTurn(replay_log[k].value, _turns[k]["response"])
        /\ _turn = (IF Len(replay_log) < Len(_turns) THEN Len(replay_log)
                    ELSE Len(_turns))

\* C9 witness: a cassette of MaxCassette turns has been replayed to its end
\* after an identifier mapping was learned.
C9_Witness ==
    /\ mode = "replay"
    /\ Len(_turns) = MaxCassette
    /\ Len(replay_log) = MaxCassette
    /\ DOMAIN _id_map # {}

\* C10: in replay mode every create() call made once all recorded turns have
\* been returned raises the exhaustion error and returns no response, also on
\* a cassette with no turns; the failed call leaves the cursor (and the
\* recorded turns) as they were, so every later call raises too.
C10_ExhaustionRaises ==
    /\ [](mode = "replay" =>
            \A k \in 1..Len(replay_log) :
                k > Len(_turns) =>
                    /\ ~replay_log[k].ok
                    /\ replay_log[k].exc = "IndexError")
    /\ [][(mode = "replay" /\ _turn >= Len(_turns)
            /\ Len(replay_log') = Len(replay_log) + 1) =>
                /\ ~Last(replay_log').ok
                /\ _turn' = _turn
                /\ _turns' = _turns]_vars

\* C10 witness: every turn of a cassette has been returned and MaxExtraCalls
\* further create() calls have been made.
C10_Witness ==
    /\ mode = "replay"
    /\ Len(_turns) >= 1
    /\ _turn = Len(_turns)
    /\ Len(replay_log) = Len(_turns) + MaxExtraCalls
    /\ ~Last(replay_log).ok

\* The result recorded for `tool_name` in the turn returned last, {} if none
RecordedFor(tool_name) ==
    IF _turn > 0 /\ _turn - 1 < Len(_turns)
    THEN DictGet(DictGet(_turns[_turn], "tool_results", <<>>), tool_name, <<>>)
    ELSE <<>>

\* The (recorded id, live id) pairs of the dataplanes that bear the same name
\* in both listings and whose ids differ
DataplanePairs(recorded_result, live_result) ==
    LET rec == DictGet(recorded_result, "dataplanes", <<>>)
        live == DictGet(live_result, "dataplanes", <<>>)
    IN  {<<rec[i]["id"], live[j]["id"]>> :
            <<i, j>> \in {p \in (1..Len(rec)) \X (1..Len(live)) :
                            /\ rec[p[1]]["name"] = live[p[2]]["name"]
                            /\ rec[p[1]]["id"] # live[p[2]]["id"]}}

\* The returned call `got` is the recorded call `rec` with its dataplaneId
\* replaced as `map` says, or exactly as recorded if `map` has no such key
MappedListenerCall(map, got, rec) ==
    LET rec_args == json_loads(rec.function.arguments).value
        got_args == json_loads(got.function.arguments).value
    IN  /\ got.function.name = rec.function.name
        /\ IF rec_args["dataplaneId"] \in DOMAIN map
           THEN got_args = DictSet(rec_args, "dataplaneId",
                                   map[rec_args["dataplaneId"]])
           ELSE got = rec

\* A create() call in replay mode has just returned a response
ReplayReturns ==
    /\ mode = "replay" /\ mode' = "replay"
    /\ _turns' = _turns /\ _turn' = _turn + 1
    /\ replay_log' = Append(replay_log, Last(replay_log'))
    /\ Last(replay_log').ok

NamesReturned(log) == [k \in 1..Len(log) |-> ToolNamesOf(log[k].value)]

\* C12: after a recording client returned a sequence of responses and called
\* save(), load() on a replay client reads as many turns with the same
\* tool-name lists in the same order; replaying them returns, turn after
\* turn, responses with these tool-name lists, and the create() call after
\* the last of them raises the exhaustion error.
C12_RoundTrip ==
    /\ [][(mode = "replay" /\ saved # None /\ Load) =>
            /\ Len(_turns') = Len(saved.returned)
            /\ \A k \in 1..Len(saved.returned) :
                  _turns'[k]["tool_names"] = NamesReturned(saved.returned)[k]]_vars
    /\ []((mode = "replay" /\ saved # None /\ Len(_turns) = Len(saved.returned)) =>
            \A k \in 1..Len(replay_log) :
                IF k <= Len(saved.returned)
                THEN /\ replay_log[k].ok
                     /\ ToolNamesOf(replay_log[k].value) = NamesReturned(saved.returned)[k]
                ELSE /\ ~replay_log[k].ok
                     /\ replay_log[k].exc = "IndexError")

\* C12 witness: MaxRecorded turns with different tool-name lists were
\* recorded and saved, and a replay client has loaded and returned them and
\* been asked for one more.
C12_Witness ==
    /\ mode = "replay"
    /\ saved # None /\ Len(saved.returned) = MaxRecorded
    /\ NamesReturned(saved.returned)[1] # NamesReturned(saved.returned)[2]
    /\ Len(_turns) = MaxRecorded
    /\ Len(replay_log) = MaxRecorded + 1
    /\ ~Last(replay_log).ok

\* The key of the listing in the result of an id-source tool
ListKey(tool_name) ==
    IF tool_name = "cp_list_dataplanes" THEN "dataplanes" ELSE "schemas"

\* Two entries describe the same resource: the same name for dataplanes,
\* the same method and path for schemas
SameResource(tool_name, a, b) ==
    IF tool_name = "cp_list_dataplanes" THEN a["name"] = b["name"]
    ELSE a["http_method"] = b["http_method"] /\ a["path"] = b["path"]

\* An id as the map writes it: a dataplane id is a str, a schema id an int
AsKey(tool_name, id) ==
    IF tool_name = "cp_list_dataplanes" THEN id ELSE Str(ToString(id))

\* The (recorded id, live id) pairs of the resources present in both
\* results whose ids differ: a set, so without any order
IdPairs(tool_name, recorded_result, live_result) ==
    LET rec == recorded_result[ListKey(tool_name)]
        live == live_result[ListKey(tool_name)]
    IN  {<<AsKey(tool_name, rec[p[1]]["id"]), AsKey(tool_name, live[p[2]]["id"])>> :
            p \in {q \in (1..Len(rec)) \X (1..Len(live)) :
                      /\ SameResource(tool_name, rec[q[1]], live[q[2]])
                      /\ rec[q[1]]["id"] # live[q[2]]["id"]}}

\* The map `map` with the pairs added
WithPairs(map, pairs) ==
    [r \in DOMAIN map \cup {p[1] : p \in pairs} |->
        IF \E p \in pairs : p[1] = r
        THEN (CHOOSE p \in pairs : p[1] = r)[2]
        ELSE map[r]]

\* The listings that hold the entries of `result` in any order
Reordered(tool_name, result) ==
    LET l == result[ListKey(tool_name)]
    IN  {[x \in {ListKey(tool_name)} |-> [i \in 1..Len(l) |-> l[f[i]]]] :
            f \in {g \in [1..Len(l) -> 1..Len(l)] :
                      \A i, j \in 1..Len(l) : g[i] = g[j] => i = j}}

\* C13: what observe_tool_result learns from a recorded and a live listing
\* with unique names is the map before it plus one recorded->live pair for
\* exactly the resources present in both listings whose ids differ, and
\* learn_from_results yields this same map whatever the order of the
\* entries of either listing.
C13_LearnByNameNotPosition ==
    [][\A obs \in LearnObservations :
          ObserveToolResult(obs[1], obs[2]) =>
              /\ _id_map' = WithPairs(_id_map,
                                IdPairs(obs[1], RecordedFor(obs[1]), obs[2]))
              /\ \A rec \in Reordered(obs[1], RecordedFor(obs[1])) :
                 \A live \in Reordered(obs[1], obs[2]) :
                     learn_from_results(_id_map, obs[1], rec, live) = _id_map']_vars

\* C13 witness: the recorded listing holds two dataplanes and a pair was
\* learned for the first of them only.
C13_Witness ==
    /\ mode = "replay" /\ _turn = 1 /\ Len(_turns) = 1
    /\ "tool_results" \in DOMAIN _turns[1]
    /\ _turns[1]["tool_results"]["cp_list_dataplanes"]["dataplanes"]
          = <<[name |-> Str("a"), id |-> Str("d1")],
              [name |-> Str("b"), id |-> Str("d2")]>>
    /\ DOMAIN _id_map = {Str("d1")}
    /\ _id_map[Str("d1")] = Str("d3")

\* C14: while a cassette is replayed the identifier map only accumulates: no
\* create() or observe_tool_result() call (nor save() or load()) removes a
\* recorded-id key, so a map that holds a key is never empty again.
C14_MapOnlyGrows ==
    [][mode = "replay" =>
          /\ DOMAIN _id_map \subseteq DOMAIN _id_map'
          /\ (DOMAIN _id_map # {} => _id_map' # <<>>)]_vars

\* C14 witness: a dataplane id and then a schema id were learned, and a
\* turn has been replayed since.
C14_Witness ==
    /\ mode = "replay"
    /\ DOMAIN _id_map = {Str("dp-rec"), Str("7")}
    /\ _turn >= 2
    /\ Len(replay_log) >= 2

\* C15: the identifier map is rebuilt for each cassette load: right after a
\* load() of a replay client the map is empty, so that nothing learned
\* before the load rewrites a turn replayed after it.
C15_LoadRebuildsMap ==
    [][(mode = "replay" /\ Load) => _id_map' = <<>>]_vars

\* The tools whose arguments rewrite_args looks at, and one it does not
RewrittenTools ==
    {"cp_create_listener", "cp_update_listener", "cp_export_schema_openapi",
     "cp_list_dataplanes"}

\* C16: while the identifier map is empty, rewrite_args returns the very
\* object it was given, whatever the tool name and the arguments, and a
\* replayed turn is returned with its response, argument strings included,
\* exactly as recorded.
C16_EmptyMapIsNoOp ==
    [][(ReplayReturns /\ _id_map = <<>>) =>
          LET rec == _turns[_turn + 1]["response"]
          IN  /\ Last(replay_log').value.ChatCompletion = rec
              /\ \A c \in 1..Len(rec.choices) :
                 \A i \in 1..Len(rec.choices[c].message.tool_calls) :
                 \A name \in RewrittenTools :
                     LET parsed == json_loads(
                            rec.choices[c].message.tool_calls[i].function.arguments)
                     IN  parsed.ok =>
                            rewrite_args(_id_map, name, parsed.value)
                              = [args |-> parsed.value, is_args |-> TRUE]]_vars

\* C16 witness: with an empty map the schema-export turn has been returned
\* with the argument string as the model wrote it.
C16_Witness ==
    /\ mode = "replay"
    /\ _id_map = <<>>
    /\ replay_log # <<>> /\ Last(replay_log).ok
    /\ LET tcs == Last(replay_log).value.ChatCompletion.choices[1].message.tool_calls
       IN  /\ Len(tcs) = 1
           /\ tcs[1].function.name = "cp_export_schema_openapi"
           /\ tcs[1].function.arguments = JsonText([schema_ids |-> <<7>>])

(***************************************************************************)
(* What the properties of the guardrails observe in guard_log.              *)
(***************************************************************************)
\* Entry i is a call that went through before_call, directly or from
\* _execute_tool
Guarded(i) == guard_log[i].op \in {"before_call", "_execute_tool"}

\* Entry i is a guarded call of a cp_create_* tool
GuardedCreate(i) == Guarded(i) /\ startswith_cp_create(guard_log[i].tool_name)

\* The boundary calls of `name` made by entry i
CallsOf(i, name) ==
    {c \in 1..Len(guard_log[i].calls) : guard_log[i].calls[c].name = name}

\* Entry i is the first guarded creation call since the last reset_turn (or
\* since the guardrails were constructed)
FirstCreateOfTurn(i) ==
    /\ GuardedCreate(i)
    /\ \A j \in 1..(i - 1) :
          GuardedCreate(j) => \E k \in (j + 1)..(i - 1) : guard_log[k].op = "reset_turn"

\* C17: with auto-preflight enabled, dev_preflight_check is called exactly
\* once, with the arguments of the call, by the first creation call after
\* the guardrails were built and by the first creation call after each
\* reset_turn, whether or not the preflight succeeded; no other call makes
\* it: not a further creation call of the same turn, not a call of another
\* tool, not reset_turn.
C17_PreflightOncePerTurn ==
    guardrails._auto_preflight =>
        \A i \in 1..Len(guard_log) :
            IF FirstCreateOfTurn(i)
            THEN /\ CallsOf(i, "dev_preflight_check") = {1}
                 /\ guard_log[i].calls[1].arguments = guard_log[i].args
            ELSE CallsOf(i, "dev_preflight_check") = {}

\* C17 witness: on a server whose preflight fails, two creation calls, a
\* reset_turn and a third creation call were made; the first and the third
\* called dev_preflight_check.
C17_Witness ==
    /\ guardrails # None /\ guardrails._auto_preflight
    /\ mcp["dev_preflight_check"].raises
    /\ Len(guard_log) = 4
    /\ GuardedCreate(1) /\ CallsOf(1, "dev_preflight_check") = {1}
    /\ GuardedCreate(2) /\ CallsOf(2, "dev_preflight_check") = {}
    /\ guard_log[3].op = "reset_turn"
    /\ GuardedCreate(4) /\ CallsOf(4, "dev_preflight_check") = {1}

\* What the k-th pre-hook that ran for entry i returned
HookResult(i, k) ==
    PreHook(guard_log[i].hooks[k].hook, guard_log[i].tool_name,
            guard_log[i].hooks[k].args).value

\* C18: before_call runs the registered pre-hooks in registration order,
\* the first with the tool name and the arguments left by the built-in
\* stages and each other one with what the hook before it returned; when a
\* hook returns None, before_call raises GuardrailReject and no later hook
\* runs; otherwise every hook runs and before_call returns what the last
\* one returned.
C18_PreHookChain ==
    \A i \in 1..Len(guard_log) :
        guard_log[i].op = "before_call" =>
            LET ran == guard_log[i].hooks
                registered == guardrails._pre_hooks
            IN  /\ Len(ran) <= Len(registered)
                /\ \A k \in 1..Len(ran) :
                      /\ ran[k].stage = "pre"
                      /\ ran[k].hook = registered[k]
                      /\ ran[k].tool_name = guard_log[i].tool_name
                      /\ ran[k].args = (IF k = 1 THEN guard_log[i].staged
                                        ELSE HookResult(i, k - 1))
                      /\ (k < Len(ran) => HookResult(i, k) # None)
                /\ IF ran # <<>> /\ HookResult(i, Len(ran)) = None
                   THEN /\ ~guard_log[i].out.ok
                        /\ guard_log[i].out.exc = "GuardrailReject"
                   ELSE /\ Len(ran) = Len(registered)
                        /\ guard_log[i].out =
                              Returned(IF ran = <<>> THEN guard_log[i].staged
                                       ELSE HookResult(i, Len(ran)))

\* C18 witness: with three hooks registered, one call was rejected by the
\* second hook and the third never ran for it, and another call went through
\* all three, the last hook receiving what the first had added.
C18_Witness ==
    /\ guardrails # None /\ Len(guardrails._pre_hooks) = 3
    /\ Len(guard_log) = 2
    /\ guard_log[1].op = "before_call" /\ guard_log[2].op = "before_call"
    /\ Len(guard_log[1].hooks) = 2
    /\ guard_log[1].hooks[2].hook = "reject_delete"
    /\ guard_log[1].hooks[2].args = [id |-> Str("c-1"), team |-> Str("injected")]
    /\ ~guard_log[1].out.ok
    /\ Len(guard_log[2].hooks) = 3
    /\ guard_log[2].hooks[3].hook = "capture"
    /\ "team" \in DOMAIN guard_log[2].hooks[3].args
    /\ guard_log[2].out.ok

\* Entry i made a boundary call from `site` that raised
RaisedAt(i, site) ==
    \E c \in 1..Len(guard_log[i].calls) :
        /\ guard_log[i].calls[c].site = site
        /\ mcp[guard_log[i].calls[c].name].raises

\* The arguments entry i ended with: those left by the built-in stages of a
\* before_call, those passed to the real tool by _execute_tool
FinalArgs(i) ==
    IF guard_log[i].op = "before_call" THEN guard_log[i].staged
    ELSE Last(guard_log[i].calls).arguments

\* The warning of a port in use
InUseText(port) ==
    Str("Port " \o ToString(port) \o " is already in use by listener 'l'.")

\* C19: no built-in stage blocks a call.  before_call raises only when a
\* pre-hook rejects; when the boundary call of a stage raises, the
\* arguments go on without what that stage would have added (no dataplaneId
\* when the dataplane lookup or creation fails, the proposed name and no
\* dedup warning when the listing fails, no in-use warning when the port
\* query fails), and _execute_tool still calls the real tool, last.
C19_BestEffortStages ==
    \A i \in 1..Len(guard_log) :
        /\ guard_log[i].op = "before_call" =>
              /\ guardrails._pre_hooks = <<>> => guard_log[i].out.ok
              /\ ~guard_log[i].out.ok =>
                    /\ guard_log[i].out.exc = "GuardrailReject"
                    /\ guard_log[i].hooks # <<>>
                    /\ HookResult(i, Len(guard_log[i].hooks)) = None
        /\ guard_log[i].op = "_execute_tool" =>
              /\ guard_log[i].out.ok
              /\ guard_log[i].calls # <<>>
              /\ Last(guard_log[i].calls).site = "_execute_tool"
              /\ Last(guard_log[i].calls).name = guard_log[i].tool_name
              /\ "error" \notin DOMAIN guard_log[i].out.value.json
        /\ Guarded(i) =>
              /\ RaisedAt(i, "_resolve_dataplane_id") =>
                    DictGet(FinalArgs(i), "dataplaneId", None)
                        = DictGet(guard_log[i].args, "dataplaneId", None)
              /\ RaisedAt(i, "_dedup_name") =>
                    /\ FinalArgs(i)["name"] = guard_log[i].args["name"]
                    /\ "_dedup_warning" \notin DOMAIN FinalArgs(i)
              /\ RaisedAt(i, "_validate_port") =>
                    /\ "_port_warnings" \in DOMAIN FinalArgs(i) =>
                          \A w \in 1..Len(FinalArgs(i)["_port_warnings"]) :
                              FinalArgs(i)["_port_warnings"][w]
                                  # InUseText(guard_log[i].args["port"])

\* C19 witness: on a server whose cp_list_dataplanes raises, _execute_tool
\* created the listener without dataplaneId, under the name the dedup stage
\* chose, with both port warnings of the validation stage.
C19_Witness ==
    /\ mcp["cp_list_dataplanes"].raises
    /\ guardrails # None /\ guardrails._pre_hooks = <<>>
    /\ Len(guard_log) = 1
    /\ guard_log[1].op = "_execute_tool"
    /\ RaisedAt(1, "_resolve_dataplane_id")
    /\ Last(guard_log[1].calls).name = "cp_create_listener"
    /\ "dataplaneId" \notin DOMAIN FinalArgs(1)
    /\ FinalArgs(1)["name"] = Str("l-2")
    /\ FinalArgs(1)["_port_warnings"][2] = InUseText(8080)
    /\ guard_log[1].out = Returned(json_dumps([id |-> Str("l-1")]))

\* C20: before_call leaves the dict that its caller passed as it was, with
\* the same keys and values: whenever the built-in stages (dataplane
\* injection, name dedup, port validation) change the arguments, what they
\* return is another dict than the caller's.
C20_CallerArgsUntouched ==
    \A i \in 1..Len(guard_log) :
        guard_log[i].op = "before_call" =>
            /\ guard_log[i].caller = guard_log[i].args
            /\ guard_log[i].staged # guard_log[i].args => ~guard_log[i].same

\* C20 witness: a before_call whose three stages all changed the arguments
\* (dataplaneId injected, name replaced, port warnings added) and whose
\* caller still holds the two keys it passed.
C20_Witness ==
    /\ Len(guard_log) = 1
    /\ guard_log[1].op = "before_call"
    /\ guard_log[1].args = [name |-> Str("l"), port |-> 8080]
    /\ guard_log[1].caller = [name |-> Str("l"), port |-> 8080]
    /\ DOMAIN guard_log[1].staged
          = {"name", "port", "dataplaneId", "_dedup_warning", "_port_warnings"}
    /\ guard_log[1].staged["dataplaneId"] = Str("dp-42")
    /\ guard_log[1].staged["name"] = Str("l-2")
    /\ ~guard_log[1].same

\* The dataplanes that the server lists
ListedDataplanes ==
    LET listing == mcp["cp_list_dataplanes"].result
    IN  IF "dataplanes" \in DOMAIN listing /\ listing["dataplanes"] # <<>>
        THEN listing["dataplanes"]
        ELSE IF "items" \in DOMAIN listing THEN listing["items"] ELSE <<>>

\* The id of a listed or created dataplane
IdOf(dp) == IF "id" \in DOMAIN dp THEN dp["id"] ELSE dp["Id"]

\* Entry i is a cp_create_listener call whose dataplaneId is absent or falsy
LacksDataplane(i) ==
    /\ guard_log[i].op = "before_call"
    /\ guard_log[i].tool_name = "cp_create_listener"
    /\ ("dataplaneId" \in DOMAIN guard_log[i].args
            => guard_log[i].args["dataplaneId"] = Str(""))

\* Entry i created the default dataplane
CreatedDefault(i) ==
    /\ LacksDataplane(i)
    /\ ~mcp["cp_list_dataplanes"].raises
    /\ ListedDataplanes = <<>>
    /\ ~mcp["cp_create_dataplane"].raises

\* C21: with dataplane injection enabled, a cp_create_listener call whose
\* dataplaneId is absent or empty leaves the stages with the id of the first
\* dataplane that cp_list_dataplanes returned and cp_create_dataplane is not
\* called; when the listing is empty, cp_create_dataplane is called once,
\* with name "default-dp", the id it returns is injected and one default-dp
\* entry with that id is appended to manifest["dataplanes"]; a call with a
\* truthy dataplaneId and a call of any other tool keep their dataplaneId,
\* or the absence of one, and make neither boundary call.
C21_DataplaneInjection ==
    guardrails._dataplane_injection =>
        /\ \A i \in 1..Len(guard_log) :
              guard_log[i].op = "before_call" =>
                IF LacksDataplane(i)
                THEN ~mcp["cp_list_dataplanes"].raises =>
                        /\ CallsOf(i, "cp_list_dataplanes") # {}
                        /\ IF ListedDataplanes # <<>>
                           THEN /\ guard_log[i].staged["dataplaneId"]
                                        = IdOf(ListedDataplanes[1])
                                /\ CallsOf(i, "cp_create_dataplane") = {}
                           ELSE /\ Cardinality(CallsOf(i, "cp_create_dataplane")) = 1
                                /\ \A c \in CallsOf(i, "cp_create_dataplane") :
                                      guard_log[i].calls[c].arguments
                                          = [name |-> Str("default-dp")]
                                /\ CreatedDefault(i) =>
                                      guard_log[i].staged["dataplaneId"]
                                          = IdOf(mcp["cp_create_dataplane"].result)
                ELSE /\ DictGet(guard_log[i].staged, "dataplaneId", None)
                            = DictGet(guard_log[i].args, "dataplaneId", None)
                     /\ CallsOf(i, "cp_list_dataplanes") = {}
                     /\ CallsOf(i, "cp_create_dataplane") = {}
        /\ Len(guardrails.manifest["dataplanes"])
                = Cardinality({i \in 1..Len(guard_log) : CreatedDefault(i)})
        /\ \A e \in 1..Len(guardrails.manifest["dataplanes"]) :
              guardrails.manifest["dataplanes"][e]
                  = [name |-> Str("default-dp"),
                     id |-> IdOf(mcp["cp_create_dataplane"].result)]

\* C21 witness: on a server without dataplanes, a listener without
\* dataplaneId and one with an empty dataplaneId both got the id of a
\* created default dataplane, and the manifest holds the two default-dp
\* entries.
C21_Witness ==
    /\ guardrails # None /\ guardrails._dataplane_injection
    /\ Len(guard_log) = 2
    /\ guard_log[1].args = [name |-> Str("l")]
    /\ guard_log[2].args = [name |-> Str("l"), dataplaneId |-> Str("")]
    /\ CreatedDefault(1) /\ CreatedDefault(2)
    /\ guard_log[1].staged["dataplaneId"] = Str("dp-new")
    /\ guard_log[2].staged["dataplaneId"] = Str("dp-new")
    /\ Len(guardrails.manifest["dataplanes"]) = 2

\* The names that the server lists for the resource type that `tool_name`
\* creates
NamesListed(tool_name) ==
    LET listing == IF tool_name = "cp_create_listener"
                   THEN mcp["cp_list_listeners"].result["listeners"]
                   ELSE mcp["cp_list_clusters"].result["clusters"]
    IN  {listing[j]["name"] : j \in 1..Len(listing)}

\* Entry i is a before_call of a creation tool that has a listing tool, with
\* a name, and the listing succeeded
DedupRan(i) ==
    /\ guard_log[i].op = "before_call"
    /\ guard_log[i].tool_name \in {"cp_create_listener", "cp_create_cluster"}
    /\ "name" \in DOMAIN guard_log[i].args
    /\ CallsOf(i, IF guard_log[i].tool_name = "cp_create_listener"
                  THEN "cp_list_listeners" ELSE "cp_list_clusters") # {}
    /\ ~RaisedAt(i, "_dedup_name")

\* name-i
Suffixed(name, i) == Str(name.raw \o "-" \o ToString(i))

\* C22: with name dedup enabled and a successful listing, a creation call
\* whose name is an existing name leaves the stages under the name name-i,
\* i being the smallest number from 2 on for which name-i is not an existing
\* name, with a _dedup_warning that tells both names; a name that is not an
\* existing name is kept and no warning is attached; and whenever a warning
\* is attached the name is not an existing name.
C22_DedupSmallestSuffix ==
    guardrails._name_dedup =>
        \A i \in 1..Len(guard_log) :
            DedupRan(i) =>
                LET proposed == guard_log[i].args["name"]
                    existing == NamesListed(guard_log[i].tool_name)
                    staged == guard_log[i].staged
                IN  /\ IF proposed \in existing
                       THEN \E n \in 2..(Cardinality(existing) + 2) :
                              /\ Suffixed(proposed, n) \notin existing
                              /\ \A k \in 2..(n - 1) : Suffixed(proposed, k) \in existing
                              /\ staged["name"] = Suffixed(proposed, n)
                              /\ "_dedup_warning" \in DOMAIN staged
                              /\ staged["_dedup_warning"]
                                    = Str("Name '" \o proposed.raw
                                          \o "' already exists. Renamed to '"
                                          \o Suffixed(proposed, n).raw \o "'.")
                       ELSE /\ staged["name"] = proposed
                            /\ "_dedup_warning" \notin DOMAIN staged
                    /\ "_dedup_warning" \in DOMAIN staged => staged["name"] \notin existing

\* The same for servers on which one of the candidates name-2 to name-99 is
\* free
DedupWithinRange ==
    (\E n \in 2..99 : Suffixed(Str("l"), n) \notin NamesListed("cp_create_listener"))
        => C22_DedupSmallestSuffix

\* A rename happened: "l" became "l-4" on a server that has l, l-2 and l-3
RenameReached ==
    /\ guardrails # None /\ guardrails._name_dedup
    /\ Len(guard_log) = 1
    /\ DedupRan(1)
    /\ guard_log[1].args["name"] = Str("l")
    /\ guard_log[1].staged["name"] = Str("l-4")

\* Entry i is a cp_create_listener call with a port
PortChecked(i) ==
    /\ guard_log[i].op = "before_call"
    /\ guard_log[i].tool_name = "cp_create_listener"
    /\ "port" \in DOMAIN guard_log[i].args

\* The warning of a port outside the range
OutsideText(port, low, high) ==
    Str("Port " \o ToString(port) \o " is outside the recommended Envoy range ("
        \o ToString(low) \o "-" \o ToString(high)
        \o "). Envoy may not expose this port.")

\* cp_query_port answered, and said the port is in use or named a listener
ReportedInUse ==
    /\ ~mcp["cp_query_port"].raises
    /\ \/ DictGet(mcp["cp_query_port"].result, "in_use", FALSE)
       \/ "listener" \in DOMAIN mcp["cp_query_port"].result

\* The in-use warning that the answer of cp_query_port calls for: with the
\* name of the listener when the answer has one
ExpectedUseText(port) ==
    IF "listener" \in DOMAIN mcp["cp_query_port"].result
    THEN InUseText(port)
    ELSE Str("Port " \o ToString(port) \o " is already in use.")

\* d without the key k
Without(d, k) == [x \in DOMAIN d \ {k} |-> d[x]]

\* C23: with port validation enabled for [low, high], a cp_create_listener
\* call with port p leaves the stages with _port_warnings holding the range
\* warning exactly when p < low or p > high, followed by the in-use warning
\* exactly when cp_query_port answered that the port is in use or named a
\* listener (with that listener's name); _port_warnings is absent when
\* neither applies; the port is unchanged, every other argument too when
\* this is the only stage, and before_call returns the arguments (it does
\* not raise).  A call without port gets no warning and makes no query.
C23_PortWarnings ==
    guardrails._port_validation =>
        \A i \in 1..Len(guard_log) :
            /\ PortChecked(i) =>
                LET port == guard_log[i].args["port"]
                    low == guardrails._port_range[1]
                    high == guardrails._port_range[2]
                    staged == guard_log[i].staged
                    expected ==
                        (IF port < low \/ port > high
                         THEN <<OutsideText(port, low, high)>> ELSE <<>>)
                        \o (IF ReportedInUse THEN <<ExpectedUseText(port)>> ELSE <<>>)
                IN  /\ IF expected = <<>>
                       THEN "_port_warnings" \notin DOMAIN staged
                       ELSE /\ "_port_warnings" \in DOMAIN staged
                            /\ staged["_port_warnings"] = expected
                    /\ staged["port"] = port
                    /\ (~guardrails._name_dedup /\ ~guardrails._dataplane_injection)
                          => Without(staged, "_port_warnings") = guard_log[i].args
                    /\ guardrails._pre_hooks = <<>> =>
                          guard_log[i].out = Returned(staged)
            /\ (guard_log[i].op = "before_call" /\ ~PortChecked(i)) =>
                /\ "_port_warnings" \notin DOMAIN guard_log[i].staged
                /\ CallsOf(i, "cp_query_port") = {}

\* C23 witness: on a server that names the listener on the port, a call
\* with the low end of the range got the in-use warning alone and a call
\* with high + 1 got both warnings.
C23_Witness ==
    /\ guardrails # None /\ guardrails._port_validation /\ ~guardrails._name_dedup
    /\ Len(guard_log) = 2
    /\ PortChecked(1) /\ PortChecked(2)
    /\ guard_log[1].args["port"] = 10000
    /\ "_port_warnings" \in DOMAIN guard_log[1].staged
    /\ guard_log[1].staged["_port_warnings"] = <<InUseText(10000)>>
    /\ guard_log[2].args["port"] = 10021
    /\ "_port_warnings" \in DOMAIN guard_log[2].staged
    /\ guard_log[2].staged["_port_warnings"]
          = <<OutsideText(10021, 10000, 10020), InUseText(10021)>>

\* A call with the high end of the range, on a server whose port is free,
\* got no warning.
NoWarningReached ==
    /\ guardrails # None /\ guardrails._port_validation
    /\ Len(guard_log) = 1
    /\ PortChecked(1)
    /\ guard_log[1].args["port"] = 10020
    /\ guard_log[1].staged = guard_log[1].args

\* The manifest bucket of each creation tool
BucketOf ==
    [cp_create_cluster |-> "clusters",
     cp_create_route_config |-> "route_configs",
     cp_create_listener |-> "listeners",
     cp_create_virtual_host |-> "virtual_hosts",
     cp_create_route |-> "routes",
     cp_create_filter |-> "filters",
     cp_create_filters |-> "filters",
     cp_create_dataplane |-> "dataplanes"]

\* The id that a manifest entry takes from `result`: the first of the
\* fields id, Id, ID that the result has
CapturedId(result) ==
    LET spellings == <<"id", "Id", "ID">>
        present == {n \in 1..3 : result # None /\ spellings[n] \in DOMAIN result}
    IN  IF present = {} THEN <<>>
        ELSE <<result[spellings[CHOOSE n \in present : \A o \in present : n <= o]]>>

\* The manifest entry expected for a creation with `args` and `result`
ExpectedEntry(args, result) ==
    LET named == [name |-> IF "name" \in DOMAIN args THEN args["name"] ELSE Str(""),
                  args |-> args]
    IN  IF CapturedId(result) = <<>> THEN named
        ELSE [name |-> named.name, args |-> args, id |-> CapturedId(result)[1]]

\* The step is an after_call
AfterCallStep ==
    /\ Len(guard_log') = Len(guard_log) + 1
    /\ Last(guard_log').op = "after_call"

\* C24: after_call for a tool cp_create_<type> whose plural is a manifest
\* bucket appends one entry to that bucket and changes no other: the entry
\* holds the name of the arguments ("" when they have none), the arguments,
\* and as id the first of the result fields id, Id, ID that is present, no
\* id when none is or when the result is None; after_call for a tool that
\* creates nothing or for a creation of an unrecognised type changes no
\* bucket and adds none.
C24_ManifestRecording ==
    [][AfterCallStep =>
        LET call == Last(guard_log')
        IN  IF call.tool_name \in DOMAIN BucketOf
            THEN guardrails'.manifest =
                    [guardrails.manifest EXCEPT ![BucketOf[call.tool_name]] =
                        Append(@, ExpectedEntry(call.args, call.result))]
            ELSE guardrails'.manifest = guardrails.manifest]_vars

\* C24 witness: after_call ran for a route whose result spells the id "Id"
\* and "ID", for a cluster whose result is None and for a widget; the
\* route has the id of "Id", the cluster has none, the widget is nowhere.
C24_Witness ==
    /\ guardrails # None
    /\ Len(guard_log) = 3
    /\ \A i \in 1..3 : guard_log[i].op = "after_call"
    /\ guard_log[1].tool_name = "cp_create_route"
    /\ guard_log[1].result = [ID |-> Str("C"), Id |-> Str("B")]
    /\ guard_log[2].tool_name = "cp_create_cluster" /\ guard_log[2].result = None
    /\ guard_log[3].tool_name = "cp_create_widget"
    /\ guardrails.manifest["routes"]
          = <<[name |-> Str(""), args |-> <<>>, id |-> Str("B")]>>
    /\ guardrails.manifest["clusters"]
          = <<[name |-> Str("c"), args |-> [name |-> Str("c")]]>>
    /\ DOMAIN guardrails.manifest = ManifestKeys

\* s is a prefix of t
IsPrefix(s, t) ==
    /\ Len(s) <= Len(t)
    /\ \A j \in 1..Len(s) : t[j] = s[j]

\* C25: whatever is called on a Guardrails object (before_call, after_call,
\* reset_turn, the agent's _execute_tool), each manifest bucket afterwards
\* starts with the entries it had before, in the same order, and the
\* buckets are the seven initial categories; reset_turn leaves the manifest
\* as it is.
C25_ManifestAppendOnly ==
    [][/\ DOMAIN guardrails'.manifest = ManifestKeys
       /\ \A k \in ManifestKeys :
              IsPrefix(guardrails.manifest[k], guardrails'.manifest[k])
       /\ (Len(guard_log') = Len(guard_log) + 1
                /\ Last(guard_log').op = "reset_turn")
              => guardrails'.manifest = guardrails.manifest]_vars

\* C25 witness: _execute_tool created a listener (a default dataplane and
\* the listener were recorded), reset_turn followed, and a second
\* _execute_tool added a second entry behind the first in both buckets.
C25_Witness ==
    /\ guardrails # None
    /\ Len(guard_log) = 3
    /\ guard_log[1].op = "_execute_tool"
    /\ guard_log[2].op = "reset_turn"
    /\ guard_log[3].op = "_execute_tool"
    /\ Len(guardrails.manifest["dataplanes"]) = 2
    /\ Len(guardrails.manifest["listeners"]) = 2
    /\ guardrails.manifest["listeners"][1].id = Str("l-1")

\* The post-hook calls of entry i: those of after_call, and of the
\* after_call that _execute_tool made
PostCallsOf(i) ==
    SelectSeq(guard_log[i].hooks, LAMBDA h : h.stage = "post")

\* Entry i ran after_call: it is one, or it is an _execute_tool whose tool
\* call returned
RanAfterCall(i) ==
    \/ guard_log[i].op = "after_call"
    \/ /\ guard_log[i].op = "_execute_tool"
       /\ guard_log[i].out.ok
       /\ "error" \notin DOMAIN guard_log[i].out.value.json

\* C26: after_call calls every registered post-hook, in registration order,
\* with the tool name, the arguments and the result, for creation tools and
\* for the others; a hook that raises stops neither the hooks registered
\* after it nor after_call, which returns None, nor _execute_tool, which
\* returns the result of the tool.
C26_PostHooksAllRun ==
    \A i \in 1..Len(guard_log) :
        RanAfterCall(i) =>
            LET ran == PostCallsOf(i)
                registered == guardrails._post_hooks
            IN  /\ Len(ran) = Len(registered)
                /\ \A k \in 1..Len(ran) :
                      /\ ran[k].hook = registered[k]
                      /\ ran[k].tool_name = guard_log[i].tool_name
                      /\ ran[k].raised = (registered[k] = "exploding_hook")
                      /\ guard_log[i].op = "after_call" =>
                            /\ ran[k].args = guard_log[i].args
                            /\ ran[k].result = guard_log[i].result
                      /\ guard_log[i].op = "_execute_tool" =>
                            /\ ran[k].args = Last(guard_log[i].calls).arguments
                            /\ guard_log[i].out = Returned(json_dumps(ran[k].result))
                /\ guard_log[i].out.ok

\* C26 witness: with hook_a, exploding_hook and hook_b registered, an
\* after_call of a deletion and an _execute_tool of a creation each ran the
\* three hooks, hook_b after the hook that raised.
C26_Witness ==
    /\ guardrails # None
    /\ guardrails._post_hooks = <<"hook_a", "exploding_hook", "hook_b">>
    /\ Len(guard_log) = 2
    /\ guard_log[1].op = "after_call" /\ guard_log[1].tool_name = "cp_delete_cluster"
    /\ guard_log[2].op = "_execute_tool"
    /\ \A i \in 1..2 :
          /\ Len(PostCallsOf(i)) = 3
          /\ PostCallsOf(i)[2].raised
          /\ PostCallsOf(i)[3].hook = "hook_b"
          /\ guard_log[i].out.ok

\* The turns inserted since the last reset
RECURSIVE SinceReset(_)
SinceReset(log) ==
    IF log = <<>> \/ Last(log).op = "reset" THEN <<>>
    ELSE SinceReset(SubSeq(log, 1, Len(log) - 1)) \o Last(log).msgs

\* The smaller of two numbers
Min(a, b) == IF a < b THEN a ELSE b

\* C27: after every add and add_many on a ConversationMemory of capacity
\* c >= 0, the history has at most c turns and is made of the last
\* min(N, c) turns inserted since the last reset, in the order of insertion,
\* N being their number: of N > c turns the oldest N - c are gone.
C27_SlidingWindow ==
    LET inserted == SinceReset(memory_log)
        N == Len(inserted)
        c == memory.max_history
        kept == Min(N, c)
    IN  /\ Len(memory._messages) <= c
        /\ Len(memory._messages) = kept
        /\ \A j \in 1..kept : memory._messages[j] = inserted[N - kept + j]

\* C27 witness: a memory of capacity 2 into which 4 turns were inserted, by
\* add and by add_many, holds msg-3 and msg-4.
C27_Witness ==
    /\ memory # None /\ memory.max_history = 2
    /\ Len(memory_log) = 2
    /\ memory_log[1].op = "add"
    /\ memory_log[2].op = "add_many" /\ Len(memory_log[2].msgs) = 3
    /\ memory._messages = <<[role |-> "user", content |-> Str("msg-3")],
                            [role |-> "assistant", content |-> Str("msg-4")]>>

\* The step is a call of to_messages
ToMessagesStep ==
    /\ Len(memory_log') = Len(memory_log) + 1
    /\ Last(memory_log').op = "to_messages"

\* No turn of `msgs` is a system turn
NoSystemTurn(msgs) == \A j \in 1..Len(msgs) : msgs[j].role # "system"

\* C28: to_messages returns one system turn, whose content is the system
\* prompt or the system prompt followed by the session context, and after
\* it the history as it is stored, in order; it leaves the memory as it
\* was; and no call stores a system turn in the history, so the system
\* prompt is outside the window when turns are evicted.
C28_SystemTurnFirst ==
    [][/\ ToMessagesStep =>
            LET out == Last(memory_log').out
                context == deployment_context(memory, guardrails)
            IN  /\ out # <<>>
                /\ out[1].role = "system"
                /\ out[1].content =
                      (IF context = "" THEN system_prompt
                       ELSE Str(system_prompt.raw \o "\n\n## Session Context\n"
                                \o context))
                /\ Tail(out) = memory._messages
                /\ NoSystemTurn(Tail(out))
                /\ memory' = memory
       /\ NoSystemTurn(memory'._messages)]_vars

\* C28 witness: three turns went into a memory of capacity 2 that is linked
\* to a manifest with a cluster, and to_messages returned the system turn
\* with the context, then msg-2 and msg-3.
C28_Witness ==
    /\ memory # None /\ memory.max_history = 2
    /\ Len(memory_log) = 4
    /\ memory_log[4].op = "to_messages"
    /\ Len(InsertedBy(memory_log)) = 3
    /\ Len(memory_log[4].out) = 3
    /\ memory_log[4].out[1] =
          [role |-> "system",
           content |-> Str(system_prompt.raw \o "\n\n## Session Context\n"
                           \o "Deployed this session: clusters: [web]")]
    /\ memory_log[4].out[2].content = Str("msg-2")
    /\ memory_log[4].out[3].content = Str("msg-3")
    /\ memory._messages = Tail(memory_log[4].out)

\* Every message list that run and run_stream send to the model starts with
\* the one system turn.
SystemTurnFirstInRequests ==
    \A r \in 1..Len(llm_requests) :
        /\ llm_requests[r] # <<>>
        /\ llm_requests[r][1].role = "system"
        /\ NoSystemTurn(Tail(llm_requests[r]))

\* The names of `items`, separated by ", "
RECURSIVE Commas(_)
Commas(items) ==
    IF Len(items) = 1 THEN items[1].name.raw
    ELSE Commas(SubSeq(items, 1, Len(items) - 1)) \o ", " \o Last(items).name.raw

\* The session context of a manifest that holds clusters and listeners only
ExpectedContext(manifest) ==
    "Deployed this session: "
    \o (IF manifest["clusters"] # <<>>
        THEN "clusters: [" \o Commas(manifest["clusters"]) \o "]" ELSE "")
    \o (IF manifest["clusters"] # <<>> /\ manifest["listeners"] # <<>>
        THEN "; " ELSE "")
    \o (IF manifest["listeners"] # <<>>
        THEN "listeners: [" \o Commas(manifest["listeners"]) \o "]" ELSE "")

\* Entry i was made on a memory linked to the manifest
LinkedBefore(i) == \E j \in 1..(i - 1) : memory_log[j].op = "link_manifest"

\* C29: once link_manifest was called with the manifest of the guardrails,
\* the system turn of every to_messages result carries the session context
\* of the manifest as it is when to_messages is called, entries appended
\* after the linking included and categories without entry left out; while
\* no category has an entry, and on a memory that is not linked, the system
\* turn is the system prompt as it is.
C29_ContextReflectsManifest ==
    \A i \in 1..Len(memory_log) :
        memory_log[i].op = "to_messages" =>
            LET manifest == memory_log[i].manifest
                populated == manifest["clusters"] # <<>> \/ manifest["listeners"] # <<>>
            IN  memory_log[i].out[1].content =
                    (IF LinkedBefore(i) /\ populated
                     THEN Str(system_prompt.raw \o "\n\n## Session Context\n"
                              \o ExpectedContext(manifest))
                     ELSE system_prompt)

\* C29 witness: the memory was linked, to_messages returned the bare system
\* prompt, a listener was then recorded in the manifest, and the next
\* to_messages names it.
C29_Witness ==
    /\ Len(memory_log) = 4
    /\ memory_log[1].op = "link_manifest"
    /\ memory_log[2].op = "to_messages"
    /\ memory_log[2].out[1].content = system_prompt
    /\ memory_log[3].op = "after_call"
    /\ memory_log[4].op = "to_messages"
    /\ memory_log[4].out[1].content =
          Str(system_prompt.raw \o "\n\n## Session Context\n"
              \o "Deployed this session: listeners: [http]")

\* The step is a call of CassetteOpenAIClient(...)
ConstructStep ==
    /\ constructed' # None
    /\ constructed'.built # Builds

\* The arguments of a construction are a misconfiguration
Misconfigured(call) ==
    \/ call.mode \notin {"record", "replay"}
    \/ call.mode = "record" /\ call.real_client = None

\* C30: CassetteOpenAIClient called with a mode other than "record" and
\* "replay", or with mode "record" and no real client, raises ValueError and
\* no client comes of it (what there was is as before); called with any other
\* arguments it returns a client of that mode with that real client.  So a
\* client that exists has mode "record" or "replay", a recording client has
\* a real client, and no create() fails for want of either.
C30_FailsAtConstruction ==
    [][/\ ConstructStep =>
            IF Misconfigured(constructed')
            THEN /\ ~constructed'.out.ok
                 /\ constructed'.out.exc = "ValueError"
                 /\ UNCHANGED <<mode, real_client, _turn, _turns, _id_map,
                                replay_log>>
            ELSE /\ constructed'.out.ok
                 /\ mode' = constructed'.mode
                 /\ real_client' = constructed'.real_client
                 /\ _turn' = 0 /\ _turns' = <<>> /\ replay_log' = <<>>
       /\ mode' \in {"", "record", "replay"}
       /\ mode' = "record" => real_client' # None
       /\ \A k \in 1..Len(replay_log') :
              replay_log'[k].ok
                \/ replay_log'[k].exc \notin {"ValueError", "AttributeError"}]_vars

\* C30 witness: the first construction asked for record mode without a real
\* client; it raised, and there is no client.
C30_Witness ==
    /\ constructed # None
    /\ constructed.mode = "record" /\ constructed.real_client = None
    /\ constructed.out = Raised("ValueError", "record mode requires a real_client")
    /\ mode = ""
    /\ _turns = <<>> /\ replay_log = <<>>

\* A recording client was constructed and create() returned twice.
ValidClientUsed ==
    /\ constructed # None
    /\ constructed.mode = "record" /\ constructed.out.ok /\ constructed.uses = 2
    /\ mode = "record" /\ real_client = RealClient
    /\ Len(replay_log) = 2
    /\ replay_log[1].ok /\ replay_log[2].ok

(***************************************************************************)
(* What the properties of mcp_to_openai_tools observe.                      *)
(***************************************************************************)
\* The tool passes the filter `allowed`: every tool when there is no filter
\* or an empty one, else the tools named in it
Passes(a, tool) ==
    \/ a = None
    \/ a.names = {}
    \/ tool["name"] \in a.names

\* C31: mcp_to_openai_tools returns one function descriptor per tool that
\* passes the filter, in catalog order: allowed=None and allowed=set() let
\* every tool pass, any other set the tools named in it.  The descriptor has
\* the tool's name, its description or "" when it has none, its inputSchema
\* or {"type": "object", "properties": {}} when it has none.  The list passed
\* in is as it was.
C31_ToolConversion ==
    [][openai_tools' # openai_tools \/ allowed' # allowed =>
          LET passing == SelectSeq(mcp_tools, LAMBDA t : Passes(allowed', t))
              out == openai_tools'.value
          IN  /\ mcp_tools' = mcp_tools
              /\ Len(out) = Len(passing)
              /\ \A i \in 1..Len(out) :
                    /\ DOMAIN out[i] = {"type", "function"}
                    /\ out[i]["type"] = Str("function")
                    /\ DOMAIN out[i]["function"] = {"name", "description", "parameters"}
                    /\ out[i]["function"]["name"] = passing[i]["name"]
                    /\ out[i]["function"]["description"] =
                          (IF "description" \in DOMAIN passing[i]
                           THEN passing[i]["description"] ELSE Str(""))
                    /\ out[i]["function"]["parameters"] =
                          (IF "inputSchema" \in DOMAIN passing[i]
                           THEN passing[i]["inputSchema"]
                           ELSE [type |-> Str("object"), properties |-> <<>>])]_vars

\* C31 witness: called with allowed=set() on a catalog of three tools, the
\* second without description and inputSchema, the function returned three
\* descriptors, the second with the defaults.
C31_Witness ==
    /\ openai_tools # None
    /\ allowed = NameSet({})
    /\ Len(mcp_tools) = 3 /\ Len(openai_tools.value) = 3
    /\ DOMAIN mcp_tools[2] = {"name"}
    /\ mcp_tools[1]["name"] = "tool_b" /\ mcp_tools[2]["name"] = "tool_a"
    /\ openai_tools.value[2]["function"]["description"] = Str("")
    /\ openai_tools.value[2]["function"]["parameters"]
          = [type |-> Str("object"), properties |-> <<>>]

\* A non-empty filter dropped a tool: of tool_a, tool_b, tool_a only the two
\* tool_a remain.
FilterReached ==
    /\ openai_tools # None
    /\ allowed = NameSet({"tool_a"})
    /\ Len(mcp_tools) = 3 /\ Len(openai_tools.value) = 2
    /\ mcp_tools[2]["name"] = "tool_b"

(***************************************************************************)
(* The order of the stages of before_call.                                  *)
(***************************************************************************)
\* The stage that makes a boundary call: 1 auto-preflight, 2 dataplane
\* injection, 3 name dedup, 4 port validation
StageOf(name) ==
    CASE name = "dev_preflight_check" -> 1
      [] name \in {"cp_list_dataplanes", "cp_create_dataplane"} -> 2
      [] name \in {"cp_list_listeners", "cp_list_clusters"} -> 3
      [] name = "cp_query_port" -> 4

\* The names of the boundary calls of entry i, in order
CallNames(i) == [c \in 1..Len(guard_log[i].calls) |-> guard_log[i].calls[c].name]

\* Entry i is a before_call of cp_create_listener
ListenerCall(i) ==
    /\ guard_log[i].op = "before_call"
    /\ guard_log[i].tool_name = "cp_create_listener"

\* C32: with every built-in stage enabled, a before_call of
\* cp_create_listener runs auto-preflight, dataplane injection, name dedup,
\* port validation and the custom hooks in this order.  The boundary calls of
\* a later stage come after those of an earlier one, a first call without
\* dataplaneId on a server with a dataplane making exactly
\* dev_preflight_check, cp_list_dataplanes, cp_list_listeners, cp_query_port;
\* dev_preflight_check receives the arguments as the caller passed them; the
\* first custom hook receives the arguments with the dataplaneId that was
\* injected, the name that the dedup chose and the warnings.
C32_StageOrder ==
    \A i \in 1..Len(guard_log) :
        ListenerCall(i) =>
            LET calls == guard_log[i].calls
                ran == guard_log[i].hooks
            IN  /\ \A c, e \in 1..Len(calls) :
                      c < e => /\ StageOf(calls[c].name) <= StageOf(calls[e].name)
                               /\ calls[c].name # calls[e].name
                /\ \A c \in CallsOf(i, "dev_preflight_check") :
                      calls[c].arguments = guard_log[i].args
                /\ (/\ FirstCreateOfTurn(i)
                    /\ LacksDataplane(i)
                    /\ ~mcp["cp_list_dataplanes"].raises
                    /\ ListedDataplanes # <<>>) =>
                      CallNames(i) = <<"dev_preflight_check", "cp_list_dataplanes",
                                       "cp_list_listeners", "cp_query_port">>
                /\ ran # <<>> =>
                      /\ ran[1].args = guard_log[i].staged
                      /\ (\E c \in CallsOf(i, "cp_list_dataplanes") :
                              ~mcp["cp_list_dataplanes"].raises
                                /\ ListedDataplanes # <<>>) =>
                            ran[1].args["dataplaneId"] = IdOf(ListedDataplanes[1])
                      /\ CreatedDefault(i) =>
                            ran[1].args["dataplaneId"]
                                = IdOf(mcp["cp_create_dataplane"].result)
                      /\ (/\ ~mcp["cp_list_listeners"].raises
                          /\ guard_log[i].args["name"] = Str("l")) =>
                            /\ ran[1].args["name"] = Str("l-2")
                            /\ "_dedup_warning" \in DOMAIN ran[1].args
                      /\ ("port" \in DOMAIN guard_log[i].args
                            /\ ~mcp["cp_query_port"].raises) =>
                            /\ "_port_warnings" \in DOMAIN ran[1].args
                            /\ Len(ran[1].args["_port_warnings"]) = 2
                            /\ ran[1].args["_port_warnings"][2]
                                  = InUseText(guard_log[i].args["port"])

\* C32 witness: the first call of the dev agent's guardrails with three
\* hooks made the four boundary calls in order, and the first hook received
\* the injected dataplaneId, the new name and both port warnings.
C32_Witness ==
    /\ guardrails # None /\ Len(guardrails._pre_hooks) = 3
    /\ Len(guard_log) >= 1
    /\ ListenerCall(1)
    /\ guard_log[1].args = [name |-> Str("l"), port |-> 8080]
    /\ CallNames(1) = <<"dev_preflight_check", "cp_list_dataplanes",
                        "cp_list_listeners", "cp_query_port">>
    /\ guard_log[1].calls[1].arguments = [name |-> Str("l"), port |-> 8080]
    /\ Len(guard_log[1].hooks) = 3
    /\ guard_log[1].hooks[1].args["dataplaneId"] = Str("dp-42")
    /\ guard_log[1].hooks[1].args["name"] = Str("l-2")
    /\ Len(guard_log[1].hooks[1].args["_port_warnings"]) = 2

(***************************************************************************)
(* The end of run() on an exhausted budget.                                 *)
(***************************************************************************)
\* The finished call i is a run() whose max_turns >= 1 model calls were all
\* answered with tool invocations
RunOutOfTurns(i) ==
    /\ completed[i].fn = "run"
    /\ max_turns >= 1
    /\ Len(completed[i].llm_requests) = max_turns
    /\ Len(llm) >= max_turns
    /\ \A k \in 1..max_turns : llm[k].tool_calls # <<>>

\* C33: when run() exhausts a budget of max_turns >= 1, every model call
\* having been answered with tool invocations, it raises nothing and returns
\* the content of the last turn of the conversation, which is the tool-result
\* turn of the last invocation, and not the sentinel or a text of the model.
C33_RunReturnsLastToolResult ==
    \A i \in 1..Len(completed) :
        RunOutOfTurns(i) =>
            LET last == Last(completed[i].messages)
            IN  /\ completed[i].out.ok
                /\ last.role = "tool"
                /\ last.tool_call_id = Last(llm[max_turns].tool_calls).id
                /\ completed[i].out.value = last.content
                /\ completed[i].out.value # MaxTurnsReached
                /\ \A k \in 1..Len(llm) : completed[i].out.value # TextOf(llm[k])

\* C33 witness: a run() on a budget of MaxTurns, whose last round-trip
\* executed two invocations, returned the result of the second.
C33_Witness ==
    /\ max_turns = MaxTurns
    /\ Len(completed) >= 1
    /\ RunOutOfTurns(1)
    /\ Len(llm[max_turns].tool_calls) = 2
    /\ completed[1].out.ok
    /\ completed[1].out.value = Last(completed[1].messages).content
    /\ Last(completed[1].messages).role = "tool"

(***************************************************************************)
(* The name dedup when every candidate is taken.                            *)
(***************************************************************************)
\* Entry i proposed a name that exists, and so do name-2 to name-99
AllCandidatesTaken(i) ==
    /\ DedupRan(i)
    /\ guard_log[i].args["name"] \in NamesListed(guard_log[i].tool_name)
    /\ \A n \in 2..99 :
          Suffixed(guard_log[i].args["name"], n) \in NamesListed(guard_log[i].tool_name)

TakenUp(obs) == obs[1] \in _ID_SOURCE_TOOLS /\ IsDict(obs[2])

\* The tool results recorded with turn t
ResultsOf(t) == DictGet(t, "tool_results", <<>>)

\* C35: tool results go with the turn that asked for them.  A recording
\* client files the dict result of an ID-source tool under that tool's name
\* in the turn recorded last, in place of an earlier result of the tool in
\* that turn, and leaves the other results, the rest of the turn and the
\* turns before it as they were; it stores no result of another tool (and
\* none that is not a dict, none before the first turn).  A replaying client
\* that has returned k turns compares the live result with the results
\* recorded with turn k and with no other; what it learns is in the map that
\* rewrites turn k + 1 and the turns after it, and the responses already
\* returned stay as returned.
C35_ResultsBelongToTurn ==
    /\ [][\A obs \in Observations :
            (mode = "record" /\ ObserveToolResult(obs[1], obs[2])) =>
                IF TakenUp(obs) /\ _turns # <<>>
                THEN /\ Len(_turns') = Len(_turns)
                     /\ \A n \in 1..(Len(_turns) - 1) : _turns'[n] = _turns[n]
                     /\ DOMAIN Last(_turns') = DOMAIN Last(_turns) \cup {"tool_results"}
                     /\ \A key \in DOMAIN Last(_turns) \ {"tool_results"} :
                           Last(_turns')[key] = Last(_turns)[key]
                     /\ DOMAIN ResultsOf(Last(_turns'))
                           = DOMAIN ResultsOf(Last(_turns)) \cup {obs[1]}
                     /\ ResultsOf(Last(_turns'))[obs[1]] = obs[2]
                     /\ \A t \in DOMAIN ResultsOf(Last(_turns)) \ {obs[1]} :
                           ResultsOf(Last(_turns'))[t] = ResultsOf(Last(_turns))[t]
                ELSE _turns' = _turns]_vars
    /\ [][\A obs \in Observations :
            (mode = "replay" /\ ObserveToolResult(obs[1], obs[2])) =>
                /\ _turns' = _turns /\ _turn' = _turn
                /\ replay_log' = replay_log
                /\ _id_map' =
                      IF TakenUp(obs) /\ _turn >= 1 /\ _turn <= Len(_turns)
                            /\ obs[1] \in DOMAIN ResultsOf(_turns[_turn])
                      THEN WithPairs(_id_map,
                               IdPairs(obs[1], ResultsOf(_turns[_turn])[obs[1]], obs[2]))
                      ELSE _id_map]_vars
    /\ [][ReplayReturns =>
            /\ Last(replay_log').value
                  = deserialize_response(
                        RewriteResponse(_id_map, _turns[_turn + 1]["response"]))
            /\ \A n \in 1..Len(replay_log) : replay_log'[n] = replay_log[n]]_vars

\* C35 witness: a recording client has recorded two turns; the results of
\* both ID-source tools are filed under the first, which asked for them,
\* and the second has none.
C35_Witness ==
    /\ mode = "record"
    /\ Len(_turns) = 2
    /\ DOMAIN ResultsOf(_turns[1]) = _ID_SOURCE_TOOLS
    /\ ResultsOf(_turns[1])["cp_list_dataplanes"]
          = [dataplanes |-> <<[name |-> Str("dp"), id |-> Str("dp-live")]>>]
    /\ "tool_results" \notin DOMAIN _turns[2]

\* A replaying client learned the live id from the result observed after
\* the first turn and has returned the second turn since.
LearnedAfterFirstTurn ==
    /\ mode = "replay"
    /\ _turn = 2
    /\ Str("dp-rec") \in DOMAIN _id_map
    /\ _id_map[Str("dp-rec")] = Str("dp-live")
    /\ Len(replay_log) = 2 /\ replay_log[2].ok

(***************************************************************************)
(* What the properties of run_agent_scenario observe.                       *)
(***************************************************************************)
\* The deadline has passed and the calling thread has noted it
DeadlinePassed == timed_out /\ waiter = "exit"

\* C36: when the deadline passes before the loop has finished,
\* run_agent_scenario returns its trace, with timed_out true, whatever the
\* loop does from then on and even if it never ends.
C36_TimeoutAbandonsWorker ==
    DeadlinePassed ~> (trace # None /\ trace.timed_out)

\* What the code does instead: whenever run_agent_scenario has returned, the
\* loop had ended
ReturnWaitsForWorker == trace # None => worker.pc = "done"

\* The deadline has passed, the loop hangs, the calling thread is blocked
BlockedAfterDeadline ==
    /\ DeadlinePassed /\ error_msg = TimeoutMessage
    /\ trace = None
    /\ stream.events = <<>> /\ stream.ending = "hang"

\* C37: a trace with timed_out true has the timeout message as its error.
C37_TimeoutMessageKept ==
    (trace # None /\ trace.timed_out) => trace.error = TimeoutMessage

\* A trace with timed_out true and the timeout message was returned
TimedOutTraceReached ==
    /\ trace # None /\ trace.timed_out /\ trace.error = TimeoutMessage
    /\ Len(trace.tool_calls) = 2

(***************************************************************************)
(* What run_stream does to the memory it is given.                          *)
(***************************************************************************)
\* The memory mem after msg was added to it: appended, and the oldest
\* turns dropped down to the window
Appended(mem, msg) ==
    [mem EXCEPT !._messages = LastN(Append(@, msg), mem.max_history)]

\* C38: run_stream changes the memory it is given in two places only.  At
\* its start it adds the user turn; when the model answers with a text it
\* adds one assistant turn with that text as the call ends.  No step in
\* between touches the memory, so no assistant turn with tool calls and no
\* tool-result turn is ever stored; and a call that ends on an exhausted
\* budget leaves the memory as the user turn left it.
C38_StreamMemoryFrame ==
    [][/\ (memory = None /\ memory' # None) =>
            /\ pc = "idle" /\ pc' = "stream_model"
            /\ \E mem \in MemoryChoices \ {None} :
                  memory' = Appended(mem, [role |-> "user", content |-> user_message])
       /\ (memory # None /\ memory' # None) => memory' = memory
       /\ (memory # None /\ memory' = None) =>
            LET e == Last(completed')
            IN  /\ Len(completed') = Len(completed) + 1
                /\ e.fn = "run_stream"
                /\ IF Len(e.llm_requests) > Len(llm_requests)
                   THEN /\ Last(e.events).type = "answer"
                        /\ Last(e.events).content = TextOf(llm'[Len(e.llm_requests)])
                        /\ e.memory = Appended(memory,
                              [role |-> "assistant",
                               content |-> Last(e.events).content])
                   ELSE e.memory = memory
                /\ (pc = "stream_model" /\ ~(turn < max_turns)) => e.memory = memory
       /\ memory' # None =>
            \A n \in 1..Len(memory'._messages) :
                /\ DOMAIN memory'._messages[n] = {"role", "content"}
                /\ memory'._messages[n].role \in {"user", "assistant"}]_vars

\* C38 witness: a run_stream call with a memory of MaxHistory turns has used
\* up a budget of MaxTurns on tool invocations; its events hold tool results
\* and its memory holds the user turn alone.
C38_Witness ==
    /\ Len(completed) = 2
    /\ completed[2].fn = "run_stream"
    /\ max_turns = MaxTurns
    /\ Len(completed[2].llm_requests) = MaxTurns
    /\ Last(completed[2].events) = Event("answer", MaxTurnsReached)
    /\ \E n \in 1..Len(completed[2].events) : completed[2].events[n].type = "tool_result"
    /\ completed[2].memory # None
    /\ completed[2].memory.max_history = MaxHistory
    /\ completed[2].memory._messages = <<[role |-> "user", content |-> user_message]>>

\* A run_stream call ended with a text after tool invocations, and its
\* memory holds the user turn and the answer.
AnswerRemembered ==
    /\ Len(completed) = 2
    /\ completed[2].fn = "run_stream"
    /\ Len(completed[2].llm_requests) = 2
    /\ completed[2].memory # None
    /\ completed[2].memory._messages
          = <<[role |-> "user", content |-> user_message],
              [role |-> "assistant", content |-> Str("All done.")]>>

(***************************************************************************)
(* Which invocations reach after_call.                                      *)
(***************************************************************************)
\* The post-hook calls of a log of hook calls
PostCalls(log) == SelectSeq(log, LAMBDA h : h.stage = "post")

\* The invocation about to be executed is of a tool outside the catalog
UnknownTool == InTools /\ CurrentCall.function.name \notin tool_names

\* C39: an invocation of an unknown tool, one that a pre-hook rejects and
\* one whose boundary call raises never reach after_call: no post-hook is
\* called for them and the manifest stays as it is.  An invocation whose
\* boundary call returned reaches after_call once: each registered post-hook
\* is called once, in order, with the arguments and the result of that
\* boundary call, and a creation is recorded once.
C39_AfterCallOnlyOnSuccess ==
    [][(InTools /\ guardrails # None) =>
          IF UnknownTool \/ RejectedByPreHook \/ BoundaryRaises
          THEN /\ PostCalls(hook_calls') = PostCalls(hook_calls)
               /\ guardrails'.manifest = guardrails.manifest
          ELSE LET name == CurrentCall.function.name
                   made == Last(mcp_calls')
                   ran == PostCalls(hook_calls')
                   before == Len(PostCalls(hook_calls))
                   registered == guardrails._post_hooks
               IN  /\ made.name = name /\ made.site = "_execute_tool"
                   /\ made.tool_call_id = CurrentCall.id
                   /\ Len(ran) = before + Len(registered)
                   /\ \A k \in 1..Len(registered) :
                         /\ ran[before + k].hook = registered[k]
                         /\ ran[before + k].tool_name = name
                         /\ ran[before + k].args = made.arguments
                         /\ ran[before + k].result = mcp[name].result
                   /\ \A key \in DOMAIN guardrails.manifest :
                         Len(guardrails'.manifest[key])
                           = Len(guardrails.manifest[key])
                               + (IF name = "cp_create_cluster" /\ key = "clusters"
                                  THEN 1 ELSE 0)]_vars

\* C39 witness: in one run with guardrails a deletion was rejected and a
\* cluster was created; the two post-hooks ran once each, for the creation,
\* and the manifest holds the one cluster.
C39_Witness ==
    /\ guardrails # None
    /\ Running
    /\ \E i \in 1..Len(messages) :
          /\ messages[i].role = "tool"
          /\ messages[i].content
                = [json |-> [error |-> Str("Pre-hook rejected call to cp_delete_cluster")]]
    /\ Len(PostCalls(hook_calls)) = 2
    /\ PostCalls(hook_calls)[1].tool_name = "cp_create_cluster"
    /\ PostCalls(hook_calls)[2].tool_name = "cp_create_cluster"
    /\ Len(guardrails.manifest["clusters"]) = 1
    /\ \A key \in DOMAIN guardrails.manifest \ {"clusters"} :
          guardrails.manifest[key] = <<>>

(***************************************************************************)
(* The recorded turns while they are replayed.                              *)
(***************************************************************************)
\* The arguments of the tool calls of a serialized response, in order
ArgumentsOf(data) ==
    [i \in 1..Len(data.choices[1].message.tool_calls) |->
        data.choices[1].message.tool_calls[i].function.arguments]

\* C40: replaying does not change the turns loaded from the cassette: after
\* any create() and any observe_tool_result() call of a replaying client,
\* self._turns is what it was before the call, also when the response that
\* create() returned had its identifiers rewritten.
C40_ReplayKeepsCassette ==
    [][(mode = "replay"
          /\ (Create \/ \E obs \in Observations : ObserveToolResult(obs[1], obs[2])))
          => _turns' = _turns]_vars

\* C40 witness: the response returned last carries the live dataplane id,
\* and the turn it was made from still carries the recorded one.
C40_Witness ==
    /\ mode = "replay"
    /\ _turn >= 1 /\ _turn <= Len(_turns)
    /\ Len(replay_log) = _turn /\ Last(replay_log).ok
    /\ LET returned == ArgumentsOf(Last(replay_log).value.ChatCompletion)
           recorded == ArgumentsOf(_turns[_turn]["response"])
       IN  /\ Len(returned) >= 1 /\ Len(recorded) >= 1
           /\ returned[1]
                 = json_dumps([name |-> Str("l"), dataplaneId |-> Str("dp-live")])
           /\ json_loads(recorded[1]).ok
           /\ "dataplaneId" \in DOMAIN json_loads(recorded[1]).value
           /\ json_loads(recorded[1]).value["dataplaneId"] = Str("dp-rec")

====
